---- MODULE Spec2Model ----
(***************************************************************************)
(* GIAS patch pipeline: generate_patch and the specification parser of    *)
(* PatchAgent (src/agent/patch_agent.py), the diff renderer, patch         *)
(* assembler, patch applier and metadata/history store of PatchGenerator   *)
(* (src/tool/patch_tool.py), and the globals and request handlers of the   *)
(* backend (src/backend/server.py).                                        *)
(*                                                                         *)
(* A Python str is modelled as a sequence of one-character strings, so     *)
(* that strip, split, replace, splitlines, join and the regular expression *)
(* of the parser are computed character by character as the code does.     *)
(***************************************************************************)
EXTENDS Integers, Sequences, FiniteSets, TLC

VARIABLES
    repo_owner,   \* PatchGenerator.repo_owner
    repo_name,    \* PatchGenerator.repo_name
    output_dir,   \* PatchGenerator.output_dir
    now,          \* the clock that datetime.now() reads
    fs,           \* the disk: path -> content of the file
    ctime,        \* the disk: path -> clock value of the last write of the file
    patch_spec,    \* the text given to _parse_patch_specification
    change_set,      \* the ChangeSet it returned
    call,         \* the last call: its name, arguments, result and the disk before it
    calls,        \* the number of calls that wrote, or tried to write, a file
    saved,        \* history: patch name -> issue_id, for a patch created and then saved
    rendered,     \* history: arguments of create_unified_diff -> the first result
    writers,      \* concurrent callers of create_patch_file: where each one is
    _agent,                \* server.py: the root agent, or None
    _vectorstore,          \* server.py: the vector store, or None
    _patch_agent,          \* server.py: the patch agent, or None
    _current_repo_owner,   \* server.py
    _current_repo_name     \* server.py

\* the globals of the backend
server_vars == <<_agent, _vectorstore, _patch_agent, _current_repo_owner, _current_repo_name>>

vars == <<repo_owner, repo_name, output_dir, now, fs, ctime, patch_spec, change_set, call,
          calls, saved, rendered, writers, server_vars>>

(***************************************************************************)
(* Python str primitives                                                   *)
(***************************************************************************)

\* the whitespace of str.strip() and of the regex class \s, within the alphabet
WS == {" ", "\t", "\n"}

NL == <<"\n">>

\* Bind(v, F) is F(v) with v evaluated once
Bind(v, F(_)) == CHOOSE r \in {F(x) : x \in {v}} : TRUE

MinOf(S) == CHOOSE x \in S : \A y \in S : x <= y

MaxOf(S) == CHOOSE x \in S : \A y \in S : x >= y

\* s[i:] starts with p  (i is a 1-based index)
StartsWithAt(s, i, p) ==
    /\ i >= 1
    /\ i + Len(p) - 1 <= Len(s)
    /\ SubSeq(s, i, i + Len(p) - 1) = p

\* str.find(p, i): the first index >= i at which p occurs in s, 0 when none
Find(s, p, i) ==
    LET hits == {k \in i..(Len(s) - Len(p) + 1) : StartsWithAt(s, k, p)}
    IN  IF hits = {} THEN 0 ELSE MinOf(hits)

\* p in s
Contains(s, p) == Find(s, p, 1) # 0

\* str.endswith
EndsWith(s, p) == Len(p) <= Len(s) /\ SubSeq(s, Len(s) - Len(p) + 1, Len(s)) = p

\* str.strip()
Strip(s) ==
    LET keep == {i \in 1..Len(s) : s[i] \notin WS}
    IN  IF keep = {} THEN <<>> ELSE SubSeq(s, MinOf(keep), MaxOf(keep))

\* s.split(sep, 1) for a sep that occurs in s: the text before and after the
\* first occurrence
SplitOnce(s, sep) ==
    LET k == Find(s, sep, 1)
    IN  <<SubSeq(s, 1, k - 1), SubSeq(s, k + Len(sep), Len(s))>>

\* str.replace(old, new): every non-overlapping occurrence, left to right
RECURSIVE Replace(_, _, _)
Replace(s, old, new) ==
    LET k == Find(s, old, 1)
    IN  IF k = 0 THEN s
        ELSE SubSeq(s, 1, k - 1) \o new
             \o Replace(SubSeq(s, k + Len(old), Len(s)), old, new)

\* str.splitlines(keepends=True): every line keeps its "\n"; the text after
\* the last "\n", when not empty, is the last line
RECURSIVE SplitLinesKeep(_)
SplitLinesKeep(s) ==
    IF s = <<>> THEN <<>>
    ELSE LET k == Find(s, NL, 1)
         IN  IF k = 0 THEN <<s>>
             ELSE <<SubSeq(s, 1, k)>> \o SplitLinesKeep(SubSeq(s, k + 1, Len(s)))

\* sep.join(parts)
RECURSIVE Join(_, _)
Join(parts, sep) ==
    IF parts = <<>> THEN <<>>
    ELSE IF Len(parts) = 1 THEN parts[1]
    ELSE parts[1] \o sep \o Join(Tail(parts), sep)

\* str.split("\n"): what a reader of a written file sees as its lines
RECURSIVE SplitLines(_)
SplitLines(s) ==
    LET k == Find(s, NL, 1)
    IN  IF k = 0 THEN <<s>>
        ELSE <<SubSeq(s, 1, k - 1)>> \o SplitLines(SubSeq(s, k + 1, Len(s)))

(***************************************************************************)
(* PatchAgent._parse_patch_specification                                   *)
(***************************************************************************)

\* a TLA+ string cannot hold the grave accent: that one character is written "BT"
BT == "BT"

FENCE == <<BT, BT, BT>>

FILE == <<"f", "i", "l", "e">>

PATH == <<"p", "a", "t", "h">>

COLON == <<":">>

SEP3 == <<"-", "-", "-">>

ARROW == <<"=", ">">>

NoMatch == [ok |-> FALSE, g1 |-> <<>>, g2 |-> <<>>, end |-> 0]

\* The tail  ([^\n]+)\n( .*? )\nFENCE   of the pattern tried with group 1 starting
\* at q. The greedy [^\n]+ must be followed by "\n", so it runs to the end of
\* the line; the lazy group 2 ends at the first "\n" FENCE that starts after that
\* "\n".
TryBody(t, q) ==
    IF q > Len(t) \/ t[q] = "\n" THEN NoMatch
    ELSE LET eol == Find(t, NL, q)
             k   == IF eol = 0 THEN 0 ELSE Find(t, NL \o FENCE, eol + 1)
         IN  IF eol = 0 \/ k = 0 THEN NoMatch
             ELSE [ok  |-> TRUE,
                   g1  |-> SubSeq(t, q, eol - 1),
                   g2  |-> SubSeq(t, eol + 1, k - 1),
                   end |-> k + 4]

\* the number of whitespace characters in a row from r on
RECURSIVE WsRun(_, _)
WsRun(t, r) == IF r <= Len(t) /\ t[r] \in WS THEN 1 + WsRun(t, r + 1) ELSE 0

\* the greedy \s* from r: the longest run first, then one character less ...
RECURSIVE TryWs(_, _, _)
TryWs(t, r, w) ==
    LET m == TryBody(t, r + w)
    IN  IF m.ok THEN m
        ELSE IF w = 0 THEN NoMatch
        ELSE TryWs(t, r, w - 1)

\* the first of the matches in a sequence of attempts
RECURSIVE FirstOk(_)
FirstOk(ms) ==
    IF ms = <<>> THEN NoMatch
    ELSE IF Head(ms).ok THEN Head(ms)
    ELSE FirstOk(Tail(ms))

\* re.match of  FENCE (?:file|path)?:?\s*([^\n]+)\n( .*? )\nFENCE   (re.DOTALL) at s.
\* Both optional parts are greedy: a backtracking matcher tries the label
\* with the colon, the label alone, the colon alone, then neither.
MatchAt(t, s) ==
    IF ~StartsWithAt(t, s, FENCE) THEN NoMatch
    ELSE LET a      == s + 3
             lab    == StartsWithAt(t, a, FILE) \/ StartsWithAt(t, a, PATH)
             From(r) == TryWs(t, r, WsRun(t, r))
             labCol == IF lab /\ StartsWithAt(t, a + 4, COLON)
                       THEN <<From(a + 5)>> ELSE <<>>
             labOnly == IF lab THEN <<From(a + 4)>> ELSE <<>>
             colOnly == IF StartsWithAt(t, a, COLON) THEN <<From(a + 1)>> ELSE <<>>
         IN  FirstOk(labCol \o labOnly \o colOnly \o <<From(a)>>)

\* a dict that would put a new key first: the order of the fragments of a
\* patch tells it from the dict of the program
DictPut_NewKeyFirst(d, k, v) ==
    <<[path |-> k, original |-> v.original, modified |-> v.modified]>>
    \o SelectSeq(d, LAMBDA e : e.path # k)

\* dict assignment changes[k] = v: a new key goes last, an existing key keeps
\* its place and takes the new value
DictPut(d, k, v) ==
    IF \E i \in 1..Len(d) : d[i].path = k
    THEN [i \in 1..Len(d) |->
            IF d[i].path = k
            THEN [path |-> k, original |-> v.original, modified |-> v.modified]
            ELSE d[i]]
    ELSE Append(d, [path |-> k, original |-> v.original, modified |-> v.modified])

\* an entry whose halves would keep the white space around them
BlockEntry_Unstripped(m) ==
    LET content == Strip(m.g2)
    IN  IF Contains(content, SEP3)
        THEN [original |-> SplitOnce(content, SEP3)[1],
              modified |-> SplitOnce(content, SEP3)[2]]
        ELSE IF Contains(content, ARROW)
        THEN [original |-> SplitOnce(content, ARROW)[1],
              modified |-> SplitOnce(content, ARROW)[2]]
        ELSE [original |-> <<>>, modified |-> content]

\* an entry that would take a body without separator as the original text too
BlockEntry_BodyAsOriginal(m) ==
    LET content == Strip(m.g2)
    IN  IF Contains(content, SEP3)
        THEN [original |-> Strip(SplitOnce(content, SEP3)[1]),
              modified |-> Strip(SplitOnce(content, SEP3)[2])]
        ELSE IF Contains(content, ARROW)
        THEN [original |-> Strip(SplitOnce(content, ARROW)[1]),
              modified |-> Strip(SplitOnce(content, ARROW)[2])]
        ELSE [original |-> content, modified |-> content]

\* an entry for which => would be looked for before ---
BlockEntry_ArrowFirst(m) ==
    LET content == Strip(m.g2)
    IN  IF Contains(content, ARROW)
        THEN [original |-> Strip(SplitOnce(content, ARROW)[1]),
              modified |-> Strip(SplitOnce(content, ARROW)[2])]
        ELSE IF Contains(content, SEP3)
        THEN [original |-> Strip(SplitOnce(content, SEP3)[1]),
              modified |-> Strip(SplitOnce(content, SEP3)[2])]
        ELSE [original |-> <<>>, modified |-> content]

\* lines 211-226: the entry of one match
BlockEntry(m) ==
    LET content == Strip(m.g2)
    IN  IF Contains(content, SEP3)
        THEN [original |-> Strip(SplitOnce(content, SEP3)[1]),
              modified |-> Strip(SplitOnce(content, SEP3)[2])]
        ELSE IF Contains(content, ARROW)
        THEN [original |-> Strip(SplitOnce(content, ARROW)[1]),
              modified |-> Strip(SplitOnce(content, ARROW)[2])]
        ELSE [original |-> <<>>, modified |-> content]

\* re.finditer: the leftmost match from pos on, then on from its end
RECURSIVE ParseFrom(_, _, _)
ParseFrom(t, pos, changes) ==
    IF pos > Len(t) THEN changes
    ELSE LET m == MatchAt(t, pos)
         IN  IF m.ok
             THEN ParseFrom(t, m.end, DictPut(changes, Strip(m.g1), BlockEntry(m)))
             ELSE ParseFrom(t, pos + 1, changes)

\* the ChangeSet: a dict in insertion order, as a sequence of
\* [path, original, modified]
parse_patch_specification(spec_text) == ParseFrom(spec_text, 1, <<>>)

(***************************************************************************)
(* PatchGenerator.create_unified_diff: difflib.unified_diff                *)
(* Indices are Python's: 0-based, ranges half open.                        *)
(***************************************************************************)

\* str(n) for n >= 0
RECURSIVE Digits(_)
Digits(n) ==
    LET d == <<"0", "1", "2", "3", "4", "5", "6", "7", "8", "9">>
    IN  IF n < 10 THEN <<d[n + 1]>> ELSE Digits(n \div 10) \o <<d[(n % 10) + 1]>>

\* SequenceMatcher.find_longest_match (no junk): the longest block
\* a[i:i+k] == b[j:j+k] within a[alo:ahi], b[blo:bhi]; of the longest, the one
\* that starts earliest in a, and of those the one that starts earliest in b;
\* (alo, blo, 0) when no element matches
FindLongestMatch(a, b, alo, ahi, blo, bhi) ==
    LET blocks == {m \in (alo..(ahi - 1)) \X (blo..(bhi - 1)) \X (1..(ahi - alo)) :
                     /\ m[1] + m[3] <= ahi
                     /\ m[2] + m[3] <= bhi
                     /\ \A d \in 0..(m[3] - 1) : a[m[1] + d + 1] = b[m[2] + d + 1]}
        Better(m, o) == \/ m[3] > o[3]
                        \/ m[3] = o[3] /\ m[1] < o[1]
                        \/ m[3] = o[3] /\ m[1] = o[1] /\ m[2] <= o[2]
    IN  IF blocks = {} THEN <<alo, blo, 0>>
        ELSE CHOOSE m \in blocks : \A o \in blocks : Better(m, o)

\* SequenceMatcher.get_matching_blocks before the sentinel: the longest match,
\* then the same to its left and to its right. (With no junk a longest match
\* cannot touch its neighbour, so the collapsing pass changes nothing.)
RECURSIVE MatchingBlocks(_, _, _, _, _, _)
MatchingBlocks(a, b, alo, ahi, blo, bhi) ==
    Bind(FindLongestMatch(a, b, alo, ahi, blo, bhi), LAMBDA m :
        IF m[3] = 0 THEN <<>>
        ELSE (IF alo < m[1] /\ blo < m[2]
              THEN MatchingBlocks(a, b, alo, m[1], blo, m[2]) ELSE <<>>)
             \o <<m>>
             \o (IF m[1] + m[3] < ahi /\ m[2] + m[3] < bhi
                 THEN MatchingBlocks(a, b, m[1] + m[3], ahi, m[2] + m[3], bhi)
                 ELSE <<>>))

Opcode(tag, i1, i2, j1, j2) == [tag |-> tag, i1 |-> i1, i2 |-> i2, j1 |-> j1, j2 |-> j2]

\* SequenceMatcher.get_opcodes: the loop over the matching blocks
RECURSIVE OpcodesFrom(_, _, _)
OpcodesFrom(blocks, i, j) ==
    IF blocks = <<>> THEN <<>>
    ELSE LET ai   == Head(blocks)[1]
             bj   == Head(blocks)[2]
             size == Head(blocks)[3]
             tag  == IF i < ai /\ j < bj THEN "replace"
                     ELSE IF i < ai THEN "delete"
                     ELSE IF j < bj THEN "insert"
                     ELSE ""
         IN  (IF tag # "" THEN <<Opcode(tag, i, ai, j, bj)>> ELSE <<>>)
             \o (IF size > 0
                 THEN <<Opcode("equal", ai, ai + size, bj, bj + size)>> ELSE <<>>)
             \o OpcodesFrom(Tail(blocks), ai + size, bj + size)

get_opcodes(a, b) ==
    OpcodesFrom(MatchingBlocks(a, b, 0, Len(a), 0, Len(b)) \o <<<<Len(a), Len(b), 0>>>>,
                0, 0)

Min2(x, y) == IF x <= y THEN x ELSE y

Max2(x, y) == IF x >= y THEN x ELSE y

\* the loop of get_grouped_opcodes: a run of more than 2n equal lines ends the
\* group and starts the next one
RECURSIVE GroupLoop(_, _, _)
GroupLoop(codes, group, n) ==
    IF codes = <<>>
    THEN IF group # <<>> /\ ~(Len(group) = 1 /\ group[1].tag = "equal")
         THEN <<group>> ELSE <<>>
    ELSE LET c == Head(codes)
         IN  IF c.tag = "equal" /\ c.i2 - c.i1 > n + n
             THEN <<Append(group, Opcode("equal", c.i1, Min2(c.i2, c.i1 + n),
                                         c.j1, Min2(c.j2, c.j1 + n)))>>
                  \o GroupLoop(Tail(codes),
                               <<Opcode("equal", Max2(c.i1, c.i2 - n), c.i2,
                                        Max2(c.j1, c.j2 - n), c.j2)>>, n)
             ELSE GroupLoop(Tail(codes), Append(group, c), n)

\* SequenceMatcher.get_grouped_opcodes(n)
\* lines of get_grouped_opcodes before its loop: a leading run of equal lines
\* keeps its last n lines
TrimHead(codes, n) ==
    Bind(codes[1], LAMBDA h :
        IF h.tag = "equal"
        THEN [codes EXCEPT ![1] = Opcode("equal", Max2(h.i1, h.i2 - n), h.i2,
                                         Max2(h.j1, h.j2 - n), h.j2)]
        ELSE codes)

\* and a trailing run of equal lines keeps its first n lines
TrimLast(codes, n) ==
    Bind(codes[Len(codes)], LAMBDA l :
        IF l.tag = "equal"
        THEN [codes EXCEPT ![Len(codes)] = Opcode("equal", l.i1, Min2(l.i2, l.i1 + n),
                                                  l.j1, Min2(l.j2, l.j1 + n))]
        ELSE codes)

get_grouped_opcodes(a, b, n) ==
    Bind(get_opcodes(a, b), LAMBDA codes :
        Bind(TrimHead(IF codes = <<>> THEN <<Opcode("equal", 0, 1, 0, 1)>> ELSE codes, n),
             LAMBDA codes1 : GroupLoop(TrimLast(codes1, n), <<>>, n)))

\* difflib._format_range_unified
format_range_unified(start, stop) ==
    LET length == stop - start
    IN  IF length = 1 THEN Digits(start + 1)
        ELSE Digits(IF length = 0 THEN start ELSE start + 1) \o <<",">> \o Digits(length)

\* the lines of one opcode: ' ' + line, '-' + line, '+' + line
OpcodeLines(c, a, b) ==
    LET pre(ch, ls, lo, hi) == [x \in 1..(hi - lo) |-> <<ch>> \o ls[lo + x]]
    IN  IF c.tag = "equal" THEN pre(" ", a, c.i1, c.i2)
        ELSE (IF c.tag \in {"replace", "delete"} THEN pre("-", a, c.i1, c.i2) ELSE <<>>)
             \o (IF c.tag \in {"replace", "insert"} THEN pre("+", b, c.j1, c.j2) ELSE <<>>)

RECURSIVE GroupLines(_, _, _)
GroupLines(group, a, b) ==
    IF group = <<>> THEN <<>>
    ELSE OpcodeLines(Head(group), a, b) \o GroupLines(Tail(group), a, b)

\* the "@@ -r1 +r2 @@" line of a group and the lines of the group
HunkLines(group, a, b) ==
    <<<<"@", "@", " ", "-">>
        \o format_range_unified(group[1].i1, group[Len(group)].i2)
        \o <<" ", "+">>
        \o format_range_unified(group[1].j1, group[Len(group)].j2)
        \o <<" ", "@", "@">>>>
    \o GroupLines(group, a, b)

RECURSIVE AllHunks(_, _, _)
AllHunks(groups, a, b) ==
    IF groups = <<>> THEN <<>>
    ELSE HunkLines(Head(groups), a, b) \o AllHunks(Tail(groups), a, b)

\* a header line that would name the path without the a/ before it
FromHeader_BarePath(file_path) == <<"-", "-", "-", " ">> \o file_path

FromHeader(file_path) == <<"-", "-", "-", " ", "a", "/">> \o file_path

ToHeader(file_path) == <<"+", "+", "+", " ", "b", "/">> \o file_path

\* difflib.unified_diff(a, b, fromfile="a/<path>", tofile="b/<path>",
\* lineterm="", n): the two header lines come with the first group only
unified_diff(a, b, file_path, n) ==
    Bind(get_grouped_opcodes(a, b, n), LAMBDA groups :
        IF groups = <<>> THEN <<>>
        ELSE <<FromHeader(file_path), ToHeader(file_path)>> \o AllHunks(groups, a, b))

\* a renderer that would stamp the header line with the clock, as diff -u does
create_unified_diff_Dated(original_content, modified_content, file_path, context_lines) ==
    Join(unified_diff(SplitLinesKeep(original_content),
                      SplitLinesKeep(modified_content),
                      file_path \o <<"\t">> \o Digits(now), context_lines),
         NL)

\* lines 58-70: the lines keep their ends, the diff lines are joined by "\n"
create_unified_diff(original_content, modified_content, file_path, context_lines) ==
    Join(unified_diff(SplitLinesKeep(original_content),
                      SplitLinesKeep(modified_content),
                      file_path, context_lines),
         NL)

(***************************************************************************)
(* PatchGenerator: the patch assembler                                     *)
(***************************************************************************)

\* line 29: the full name of the repository of the PatchGenerator
repo_full_name == repo_owner \o <<"/">> \o repo_name

\* patch_name = None
None == <<"N", "o", "n", "e">>

PATCH_EXT == <<".", "p", "a", "t", "c", "h">>

\* datetime.now().isoformat() and .strftime("%Y%m%d_%H%M%S") at clock value t
Timestamp(t) == <<"T">> \o Digits(t)

\* os.path.join(output_dir, name)
PathJoin(dir, name) ==
    IF name # <<>> /\ name[1] = "/" THEN name
    ELSE IF dir = <<>> \/ dir[Len(dir)] = "/" THEN dir \o name
    ELSE dir \o <<"/">> \o name

\* _build_patch_header, lines 125-135
build_patch_header(description, author, t) ==
    <<"F", "r", "o", "m", ":", " ">> \o author
    \o <<" ", "<", "g", "i", "a", "s", "@", "g", "i", "t", "h", "u", "b", ".",
         "l", "o", "c", "a", "l", ">", "\n", "D", "a", "t", "e", ":", " ">>
    \o Timestamp(t)
    \o <<"\n", "S", "u", "b", "j", "e", "c", "t", ":", " ", "F", "i", "x", " ",
         "f", "o", "r", " ">>
    \o repo_full_name
    \o <<"\n", "X", "-", "G", "I", "A", "S", "-", "R", "e", "p", "o", "s", "i",
         "t", "o", "r", "y", ":", " ">>
    \o repo_full_name
    \o <<"\n", "\n">> \o description \o <<"\n", "\n", "-", "-", "-", "\n">>

\* a loop that would write the header pair of every entry, changed or not
RECURSIVE PatchFragments_EveryEntry(_)
PatchFragments_EveryEntry(changes) ==
    IF changes = <<>> THEN <<>>
    ELSE LET c == Head(changes)
         IN  (IF c.original = c.modified
              THEN NL \o FromHeader(c.path) \o NL \o ToHeader(c.path)
              ELSE NL \o create_unified_diff(c.original, c.modified, c.path, 3))
             \o PatchFragments_EveryEntry(Tail(changes))

\* lines 105-114: the loop over changes.items(); an entry whose original
\* equals its modified text is skipped, every other one adds "\n" + diff
RECURSIVE PatchFragments(_)
PatchFragments(changes) ==
    IF changes = <<>> THEN <<>>
    ELSE LET c == Head(changes)
         IN  (IF c.original = c.modified THEN <<>>
              ELSE NL \o create_unified_diff(c.original, c.modified, c.path, 3))
             \o PatchFragments(Tail(changes))

\* lines 94-97: the name of the patch file
PatchFileName(patch_name, t) ==
    IF patch_name = None
    THEN repo_name \o <<"_", "f", "i", "x", "_">> \o Timestamp(t) \o PATCH_EXT
    ELSE patch_name

\* open(path, "a"): the content would go after what the file holds
WriteFile_Append(files, path, content) ==
    [q \in (DOMAIN files) \cup {path} |->
        IF q # path THEN files[q]
        ELSE IF path \in DOMAIN files THEN files[path] \o content
        ELSE content]

\* open(path, "w") and f.write(content): the file holds content and nothing else
WriteFile(files, path, content) ==
    [q \in (DOMAIN files) \cup {path} |-> IF q = path THEN content ELSE files[q]]

\* a create_patch_file without the guard of lines 91-92: for an empty
\* ChangeSet it would write the header alone
create_patch_file_Unguarded(files, dir, changes, patch_name, description, author, t) ==
    [raised |-> "", ret |-> PathJoin(dir, PatchFileName(patch_name, t)),
     files |-> WriteFile(files, PathJoin(dir, PatchFileName(patch_name, t)),
                         build_patch_header(description, author, t)
                         \o PatchFragments(changes))]

\* create_patch_file, lines 91-121, on the files `files` of the disk at clock
\* value t: what it raises, what it returns and the files it leaves
create_patch_file(files, dir, changes, patch_name, description, author, t) ==
    IF changes = <<>>
    THEN [raised |-> "ValueError", ret |-> <<>>, files |-> files]
    ELSE LET patch_path == PathJoin(dir, PatchFileName(patch_name, t))
             patch_content == build_patch_header(description, author, t)
                              \o PatchFragments(changes)
         IN  [raised |-> "", ret |-> patch_path,
              files |-> WriteFile(files, patch_path, patch_content)]

(***************************************************************************)
(* PatchGenerator.apply_patch                                              *)
(***************************************************************************)

\* what can happen inside the try of lines 152-185: reading the patch file
\* fails; git or the target directory is missing and the subprocess cannot
\* be started; the subprocess runs past the 30 s; it exits with code 0; it
\* exits with another code and a stderr that is UTF-8, or one that is not
ApplyOutcomes ==
    {"read_fails", "cannot_start", "timeout", "exit_0", "exit_1", "exit_1_stderr_not_utf8"}

\* lines 154-156: the command
ApplyCommand(check_only) ==
    IF check_only THEN <<"git", "apply", "--check">> ELSE <<"git", "apply">>

\* an apply_patch with the handler of TimeoutExpired only: other exceptions
\* of the try would reach the caller
apply_patch_TimeoutOnly(files, patch_path, check_only, outcome) ==
    IF patch_path \notin DOMAIN files
    THEN [raised |-> "", ret |-> FALSE, started |-> FALSE, cmd |-> <<>>]
    ELSE IF outcome = "read_fails"
    THEN [raised |-> "OSError", ret |-> FALSE, started |-> FALSE, cmd |-> <<>>]
    ELSE IF outcome = "cannot_start"
    THEN [raised |-> "FileNotFoundError", ret |-> FALSE, started |-> FALSE,
          cmd |-> ApplyCommand(check_only)]
    ELSE IF outcome = "exit_1_stderr_not_utf8"
    THEN [raised |-> "UnicodeDecodeError", ret |-> FALSE, started |-> TRUE,
          cmd |-> ApplyCommand(check_only)]
    ELSE [raised |-> "", ret |-> outcome = "exit_0", started |-> TRUE,
          cmd |-> ApplyCommand(check_only)]

\* apply_patch, lines 148-185: what reaches the caller, what it returns,
\* whether a subprocess was started and with which command
apply_patch(files, patch_path, check_only, outcome) ==
    IF patch_path \notin DOMAIN files
    THEN \* lines 148-150
         [raised |-> "", ret |-> FALSE, started |-> FALSE, cmd |-> <<>>]
    ELSE IF outcome = "read_fails"
    THEN \* lines 158-159 raise, lines 183-185 return False
         [raised |-> "", ret |-> FALSE, started |-> FALSE, cmd |-> <<>>]
    ELSE IF outcome = "cannot_start"
    THEN \* subprocess.run raises, lines 183-185 return False
         [raised |-> "", ret |-> FALSE, started |-> FALSE, cmd |-> ApplyCommand(check_only)]
    ELSE IF outcome = "timeout"
    THEN \* lines 180-182
         [raised |-> "", ret |-> FALSE, started |-> TRUE, cmd |-> ApplyCommand(check_only)]
    ELSE IF outcome = "exit_0"
    THEN \* lines 174-176
         [raised |-> "", ret |-> TRUE, started |-> TRUE, cmd |-> ApplyCommand(check_only)]
    ELSE \* lines 169-172; a stderr that does not decode raises in line 170 and
         \* lines 183-185 return False
         [raised |-> "", ret |-> FALSE, started |-> TRUE, cmd |-> ApplyCommand(check_only)]

(***************************************************************************)
(* PatchGenerator: the metadata and history store                          *)
(***************************************************************************)

METADATA_EXT == <<"_", "m", "e", "t", "a", "d", "a", "t", "a", ".", "j", "s", "o", "n">>

\* json: one character of a string, escaped
JsonEscape(c) ==
    CASE c = "\"" -> <<"\\", "\"">>
      [] c = "\\" -> <<"\\", "\\">>
      [] c = "\n" -> <<"\\", "n">>
      [] c = "\t" -> <<"\\", "t">>
      [] OTHER -> <<c>>

RECURSIVE JsonEscapeAll(_)
JsonEscapeAll(s) ==
    IF s = <<>> THEN <<>> ELSE JsonEscape(Head(s)) \o JsonEscapeAll(Tail(s))

\* json: a str value
JsonStr(s) == <<"\"">> \o JsonEscapeAll(s) \o <<"\"">>

\* json, indent=2: a list of str that is the value of a key of the top dict
JsonStrList(l) ==
    IF l = <<>> THEN <<"[", "]">>
    ELSE <<"[", "\n", " ", " ", " ", " ">>
         \o Join([i \in 1..Len(l) |-> JsonStr(l[i])], <<",", "\n", " ", " ", " ", " ">>)
         \o <<"\n", " ", " ", "]">>

\* the keys of the metadata dict in the order of lines 234-242, with the kind
\* of their values
MetadataKeys ==
    << <<"timestamp", <<"t", "i", "m", "e", "s", "t", "a", "m", "p">>, "str">>,
       <<"repository", <<"r", "e", "p", "o", "s", "i", "t", "o", "r", "y">>, "str">>,
       <<"issue_id", <<"i", "s", "s", "u", "e", "_", "i", "d">>, "int">>,
       <<"issue_title", <<"i", "s", "s", "u", "e", "_", "t", "i", "t", "l", "e">>, "str">>,
       <<"patch_file", <<"p", "a", "t", "c", "h", "_", "f", "i", "l", "e">>, "str">>,
       <<"analysis", <<"a", "n", "a", "l", "y", "s", "i", "s">>, "str">>,
       <<"files_changed", <<"f", "i", "l", "e", "s", "_", "c", "h", "a", "n", "g", "e", "d">>,
         "list">> >>

JsonValue(kind, v) ==
    IF kind = "str" THEN JsonStr(v)
    ELSE IF kind = "int" THEN Digits(v)
    ELSE JsonStrList(v)

\* json.dump(metadata, f, indent=2)
json_dump(metadata) ==
    <<"{", "\n", " ", " ">>
    \o Join([i \in 1..Len(MetadataKeys) |->
                JsonStr(MetadataKeys[i][2]) \o <<":", " ">>
                \o JsonValue(MetadataKeys[i][3], metadata[MetadataKeys[i][1]])],
            <<",", "\n", " ", " ">>)
    \o <<"\n", "}">>

JsonFail == [ok |-> FALSE, val |-> <<>>, next |-> 0]

\* json: reads the characters of a str value from j on, up to its closing quote
RECURSIVE ReadStrBody(_, _, _)
ReadStrBody(s, j, acc) ==
    IF j > Len(s) THEN JsonFail
    ELSE IF s[j] = "\"" THEN [ok |-> TRUE, val |-> acc, next |-> j + 1]
    ELSE IF s[j] = "\\"
    THEN IF j + 1 > Len(s) THEN JsonFail
         ELSE IF s[j + 1] = "n" THEN ReadStrBody(s, j + 2, Append(acc, "\n"))
         ELSE IF s[j + 1] = "t" THEN ReadStrBody(s, j + 2, Append(acc, "\t"))
         ELSE IF s[j + 1] \in {"\"", "\\", "/"} THEN ReadStrBody(s, j + 2, Append(acc, s[j + 1]))
         ELSE JsonFail
    ELSE IF s[j] \in {"\n", "\t"} THEN JsonFail
    ELSE ReadStrBody(s, j + 1, Append(acc, s[j]))

ReadStr(s, i) ==
    IF i <= Len(s) /\ s[i] = "\"" THEN ReadStrBody(s, i + 1, <<>>) ELSE JsonFail

DigitValue(c) ==
    CASE c = "0" -> 0 [] c = "1" -> 1 [] c = "2" -> 2 [] c = "3" -> 3 [] c = "4" -> 4
      [] c = "5" -> 5 [] c = "6" -> 6 [] c = "7" -> 7 [] c = "8" -> 8 [] c = "9" -> 9

IsDigit(c) == c \in {"0", "1", "2", "3", "4", "5", "6", "7", "8", "9"}

RECURSIVE ReadDigits(_, _, _)
ReadDigits(s, j, acc) ==
    IF j <= Len(s) /\ IsDigit(s[j]) THEN ReadDigits(s, j + 1, 10 * acc + DigitValue(s[j]))
    ELSE [ok |-> TRUE, val |-> acc, next |-> j]

\* json: a number without sign, fraction or exponent; no leading zero
ReadInt(s, i) ==
    IF i > Len(s) \/ ~IsDigit(s[i]) THEN JsonFail
    ELSE IF s[i] = "0" /\ i + 1 <= Len(s) /\ IsDigit(s[i + 1]) THEN JsonFail
    ELSE ReadDigits(s, i, 0)

\* json: white space between tokens
RECURSIVE SkipWs(_, _)
SkipWs(s, i) == IF i <= Len(s) /\ s[i] \in WS THEN SkipWs(s, i + 1) ELSE i

\* json: the items of a list of str after the first, up to "]"
RECURSIVE ReadListRest(_, _, _)
ReadListRest(s, i, acc) ==
    LET j == SkipWs(s, i)
    IN  IF j > Len(s) THEN JsonFail
        ELSE IF s[j] = "]" THEN [ok |-> TRUE, val |-> acc, next |-> j + 1]
        ELSE IF s[j] # "," THEN JsonFail
        ELSE LET r == ReadStr(s, SkipWs(s, j + 1))
             IN  IF r.ok THEN ReadListRest(s, r.next, Append(acc, r.val)) ELSE JsonFail

ReadStrList(s, i) ==
    IF i > Len(s) \/ s[i] # "[" THEN JsonFail
    ELSE LET j == SkipWs(s, i + 1)
         IN  IF j <= Len(s) /\ s[j] = "]" THEN [ok |-> TRUE, val |-> <<>>, next |-> j + 1]
             ELSE LET r == ReadStr(s, j)
                  IN  IF r.ok THEN ReadListRest(s, r.next, <<r.val>>) ELSE JsonFail

ReadValue(kind, s, i) ==
    IF kind = "str" THEN ReadStr(s, i)
    ELSE IF kind = "int" THEN ReadInt(s, i)
    ELSE ReadStrList(s, i)

\* json: the members of the dict from the k-th metadata key on, then "}" and
\* the end of the document
RECURSIVE ReadMembers(_, _, _, _)
ReadMembers(s, i, k, acc) ==
    IF k > Len(MetadataKeys)
    THEN LET j == SkipWs(s, i)
         IN  IF j <= Len(s) /\ s[j] = "}" /\ SkipWs(s, j + 1) > Len(s)
             THEN [ok |-> TRUE, val |-> acc, next |-> Len(s) + 1]
             ELSE JsonFail
    ELSE LET j0  == SkipWs(s, i)
             j1  == IF k = 1 THEN j0
                    ELSE IF j0 <= Len(s) /\ s[j0] = "," THEN SkipWs(s, j0 + 1) ELSE 0
             key == IF j1 = 0 THEN JsonFail ELSE ReadStr(s, j1)
             j2  == IF key.ok THEN SkipWs(s, key.next) ELSE 0
             v   == IF key.ok /\ key.val = MetadataKeys[k][2]
                       /\ j2 <= Len(s) /\ s[j2] = ":"
                    THEN ReadValue(MetadataKeys[k][3], s, SkipWs(s, j2 + 1))
                    ELSE JsonFail
         IN  IF v.ok
             THEN ReadMembers(s, v.next, k + 1,
                              [f \in (DOMAIN acc) \cup {MetadataKeys[k][1]} |->
                                  IF f = MetadataKeys[k][1] THEN v.val ELSE acc[f]])
             ELSE JsonFail

EmptyFn == [x \in {} |-> <<>>]

\* json.load(f) of a file of the store: the metadata dict of a document that
\* json.dump wrote; a patch document, an empty or a cut-off file is no JSON
\* value and json.load raises JSONDecodeError (ok = FALSE)
json_load(content) ==
    LET i == SkipWs(content, 1)
    IN  IF i <= Len(content) /\ content[i] = "{"
        THEN ReadMembers(content, i + 1, 1, EmptyFn)
        ELSE JsonFail

\* save_patch_metadata, lines 234-252
save_patch_metadata(files, dir, patch_name, issue_id, issue_title, analysis, files_changed, t) ==
    LET metadata == [timestamp |-> Timestamp(t),
                     repository |-> repo_full_name,
                     issue_id |-> issue_id,
                     issue_title |-> issue_title,
                     patch_file |-> patch_name,
                     analysis |-> analysis,
                     files_changed |-> files_changed]
        metadata_path == PathJoin(dir, Replace(patch_name, PATCH_EXT, METADATA_EXT))
    IN  [ret |-> metadata_path,
         files |-> WriteFile(files, metadata_path, json_dump(metadata))]

\* os.listdir(dir): the names of the files directly in dir
Listdir(files, dir) ==
    {SubSeq(q, Len(dir) + 2, Len(q)) :
        q \in {f \in DOMAIN files :
                 /\ StartsWithAt(f, 1, dir \o <<"/">>)
                 /\ Len(f) > Len(dir) + 1
                 /\ ~Contains(SubSeq(f, Len(dir) + 2, Len(f)), <<"/">>)}}

\* line 263: the files list_patches looks at
PatchFilesIn(files, dir) == {f \in Listdir(files, dir) : EndsWith(f, PATCH_EXT)}

\* line 265: where list_patches looks for the metadata of a patch file
ListedMetadataPath(dir, filename) == Replace(PathJoin(dir, filename), PATCH_EXT, METADATA_EXT)

\* lines 264-283: the entry of one patch file; the metadata field is there
\* when the metadata file exists (json.load raising is ListRaises)
PatchInfo(files, times, dir, filename) ==
    LET patch_path == PathJoin(dir, filename)
        metadata_path == ListedMetadataPath(dir, filename)
        patch_info == [name |-> filename,
                       path |-> patch_path,
                       size |-> Len(files[patch_path]),
                       created |-> times[patch_path]]
    IN  IF metadata_path \in DOMAIN files
        THEN [name |-> patch_info.name, path |-> patch_info.path,
              size |-> patch_info.size, created |-> patch_info.created,
              metadata |-> json_load(files[metadata_path]).val]
        ELSE patch_info

\* line 281: json.load raises on a metadata file that is no JSON document
ListRaises(files, dir) ==
    \E f \in PatchFilesIn(files, dir) :
        /\ ListedMetadataPath(dir, f) \in DOMAIN files
        /\ ~json_load(files[ListedMetadataPath(dir, f)]).ok

\* line 285: sorted(patches, key=created, reverse=True). os.listdir gives the
\* names in any order and the sort is stable, so entries created at the same
\* clock value come in any order
Listings(files, times, dir) ==
    LET names == PatchFilesIn(files, dir)
        n == Cardinality(names)
    IN  {[i \in 1..n |-> PatchInfo(files, times, dir, ord[i])] :
            ord \in {o \in [1..n -> names] :
                       /\ \A i, j \in 1..n : i # j => o[i] # o[j]
                       /\ \A i, j \in 1..n :
                            i < j => times[PathJoin(dir, o[i])] >= times[PathJoin(dir, o[j])]}}

(***************************************************************************)
(* PatchAgent.generate_patch                                               *)
(***************************************************************************)

\* s[:n]
Take(s, n) == SubSeq(s, 1, IF Len(s) < n THEN Len(s) ELSE n)

\* create_commit_message, lines 201-209
create_commit_message(issue_id, issue_title, description) ==
    <<"F", "i", "x", " ", "#">> \o Digits(issue_id) \o <<":", " ">> \o issue_title
    \o <<"\n", "\n">> \o description
    \o <<"\n", "\n", "F", "i", "x", "e", "s", ":", " ", "h", "t", "t", "p", "s", ":", "/", "/",
         "g", "i", "t", "h", "u", "b", ".", "c", "o", "m", "/">>
    \o repo_full_name
    \o <<"/", "i", "s", "s", "u", "e", "s", "/">> \o Digits(issue_id)
    \o <<"\n", "\n", "G", "e", "n", "e", "r", "a", "t", "e", "d", " ", "b", "y", " ", "G",
         "I", "A", "S", " ", "(", "G", "i", "t", "H", "u", "b", " ", "I", "s", "s", "u",
         "e", " ", "A", "n", "a", "l", "y", "s", "i", "s", " ", "S", "y", "s", "t", "e",
         "m", ")", "\n">>

\* the parameters of save_patch_metadata (patch_tool.py, lines 211-218), none
\* with a default
SaveParameters == {"patch_name", "issue_id", "issue_title", "analysis", "files_changed"}

\* the keywords of the call of save_patch_metadata in generate_patch, lines
\* 146-152
SaveKeywords == {"patch_filename", "issue_id", "issue_title", "analysis", "files_changed"}

\* Python binds a call when every keyword names a parameter and every
\* parameter without default gets a value; it raises TypeError otherwise
CallBinds(keywords, parameters) == keywords \subseteq parameters /\ parameters \subseteq keywords

\* line 137: the name of the patch file of an issue
IssuePatchName(issue_id) ==
    <<"i", "s", "s", "u", "e", "_">> \o Digits(issue_id) \o <<"_">> \o repo_name
    \o <<"_", "f", "i", "x">> \o PATCH_EXT

\* line 141: the description handed to create_patch_file
IssueDescription(issue_id, issue_title, issue_body) ==
    <<"F", "i", "x", " ", "f", "o", "r", " ">> \o issue_title
    \o <<"\n", "\n", "I", "s", "s", "u", "e", ":", " ", "#">> \o Digits(issue_id)
    \o <<"\n">> \o Take(issue_body, 500)

AgentAuthor == <<"G", "I", "A", "S", " ", "P", "a", "t", "c", "h", " ", "A", "g", "e", "n", "t">>

\* the files after open(path, "w") and f.write(content) under the behaviour io
\* of the disk: the write goes through, open fails and the file is as it
\* was, or the write fails after open has emptied the file
WriteUnder(io, before, path, written) ==
    IF io = "ok" THEN written
    ELSE IF io = "open_fails" THEN before
    ELSE WriteFile(before, path, <<>>)

\* a result with the status of the server's PatchInfo for a failure
ErrorResult_Failed(message, issue_id) ==
    [status |-> "failed", message |-> message, issue_id |-> issue_id]

\* a result that would hide what failed
ErrorResult_Generic(message, issue_id) ==
    [status |-> "error", message |-> "Patch generation failed", issue_id |-> issue_id]

\* lines 175-181: the result of the except branch
ErrorResult(message, issue_id) ==
    [status |-> "error", message |-> message, issue_id |-> issue_id]

\* a result that would report the lack of changes as an error
WarningResult_AsError(patch_spec_text) ==
    [status |-> "error",
     message |-> "Patch specification generated but contains no code changes",
     specification |-> patch_spec_text]

\* lines 130-134
WarningResult(patch_spec_text) ==
    [status |-> "warning",
     message |-> "Patch specification generated but contains no code changes",
     specification |-> patch_spec_text]

\* the keys of a ChangeSet, in its order: list(changes.keys())
Keys(changes) == [i \in 1..Len(changes) |-> changes[i].path]

\* generate_patch, lines 95-181, with the completion chain behaving as chain
\* (it raises with a message or returns a text) and the disk as io_patch for
\* the patch file and io_meta for the metadata file: what propagates to the
\* caller, the result, the files it leaves, and the changed_files of line 145
\* (None when the call does not get there)
generate_patch(files, dir, issue_id, issue_title, issue_body, analysis, chain, io_patch, io_meta, t) ==
    IF chain.kind = "raises"
    THEN [raised |-> "", result |-> ErrorResult(chain.message, issue_id), files |-> files,
          changed_files |-> None]
    ELSE Bind(parse_patch_specification(chain.text), LAMBDA changes :
        IF changes = <<>>
        THEN [raised |-> "", result |-> WarningResult(chain.text), files |-> files,
              changed_files |-> None]
        ELSE Bind(create_patch_file(files, dir, changes, IssuePatchName(issue_id),
                                    IssueDescription(issue_id, issue_title, issue_body),
                                    AgentAuthor, t), LAMBDA created :
            IF io_patch # "ok"
            THEN [raised |-> "", result |-> ErrorResult("OSError", issue_id),
                  files |-> WriteUnder(io_patch, files, created.ret, created.files),
                  changed_files |-> None]
            ELSE IF ~CallBinds(SaveKeywords, SaveParameters)
            THEN [raised |-> "", result |-> ErrorResult("TypeError", issue_id),
                  files |-> created.files, changed_files |-> Keys(changes)]
            ELSE Bind(save_patch_metadata(created.files, dir, IssuePatchName(issue_id), issue_id,
                                          issue_title, analysis, Keys(changes), t), LAMBDA stored :
                IF io_meta # "ok"
                THEN [raised |-> "", result |-> ErrorResult("OSError", issue_id),
                      files |-> WriteUnder(io_meta, created.files, stored.ret, stored.files),
                      changed_files |-> Keys(changes)]
                ELSE [raised |-> "",
                      result |-> [status |-> "success",
                                  issue_id |-> issue_id,
                                  issue_title |-> issue_title,
                                  patch_file |-> created.ret,
                                  metadata_file |-> stored.ret,
                                  commit_message |->
                                      create_commit_message(issue_id, issue_title,
                                                            Take(analysis, 1000)),
                                  files_changed |-> Keys(changes),
                                  specification |-> chain.text],
                      files |-> stored.files, changed_files |-> Keys(changes)])))

(***************************************************************************)
(* Inputs                                                                  *)
(***************************************************************************)

MaxClock == 1

MaxCalls == 2

MaxIssueId == 2

X == <<"x">>

Y == <<"d", "/", "y">>

OldText == <<"o">>

NewText == <<"n">>

\* the default output directory, and one whose name holds ".patch"
OutputDirs == {<<".", "/", "p", "a", "t", "c", "h", "e", "s">>,
               <<"o", ".", "p", "a", "t", "c", "h", "e", "s">>}

\* explicit patch names: one with the .patch suffix, one without
APatch == <<"a">> \o PATCH_EXT

PatchNames == {APatch, <<"b", ".", "d", "i", "f", "f">>}

IssueIds == 1..MaxIssueId

Description == <<"d">>

Author == <<"G", "I", "A", "S">>

IssueTitle == <<"t">>

\* an analysis text with a line end and a quote in it
Analysis == <<"a", "\n", "\"", "q">>

Change(p, o, m) == [path |-> p, original |-> o, modified |-> m]

\* a ChangeSet of two changed files with the contents of files as they are
\* on disk: of several lines, each with its line end
TwoFiles ==
    <<Change(Y, <<"a", "\n", "b", "\n">>, <<"a", "\n", "c", "\n">>), Change(X, NewText, OldText)>>

\* ChangeSets a caller hands to create_patch_file: one change; a no-op entry
\* followed by a new file; none; two changes, one of several lines; only a
\* no-op entry
DirectChangeSets ==
    { <<Change(X, OldText, NewText)>>,
      <<Change(X, OldText, OldText), Change(Y, <<>>, NewText)>>,
      <<>>,
      TwoFiles,
      <<Change(X, OldText, OldText)>> }

\* a fenced block: the fence with its marker line, the body, the closing fence
Block(marker, body) == FENCE \o marker \o NL \o body \o NL \o FENCE

FileMarker(p) == FILE \o <<":", " ">> \o p

PathMarker(p) == PATH \o <<":", " ">> \o p

\* a body of two halves with the separator on a line of its own
Halves(old, sep, new) == old \o NL \o sep \o NL \o new

\* two blocks, the first split by --- and the second by =>
TwoBlocks(p1, o1, n1, p2, o2, n2) ==
    Block(FileMarker(p1), Halves(o1, SEP3, n1)) \o NL
    \o Block(FileMarker(p2), Halves(o2, ARROW, n2))

\* paths, and texts of the halves of a body: with white space around them, of
\* two lines, empty
Paths == {X, Y}

HalfTexts == {OldText, NewText, <<" ", "o", " ">>, <<"o", "\n", "p">>, <<>>}

\* bodies that hold neither --- nor =>
PlainBodies == {NewText, <<"o", "\n", "p">>, <<" ", "n", "\t">>, <<"a", "-", "-", "b", "=", "c">>, <<>>}

\* text before the first fence and after the last one
Prefixes == {<<>>, <<"s", "e", "e", ":", "\n">>}

Suffixes == {<<>>, <<"\n", "e", "n", "d">>}

\* fence lines that name no path as file: p, path: p or p: do: a language
\* tag, nothing
PlainFenceLines == {<<"p", "y", "t", "h", "o", "n">>, <<>>}

\* texts with no fence at all
ProseTexts == {<<>>, <<"n", "o", " ", "f", "i", "x">>, <<"a", " ", BT, "b", BT, "\n", "-", "-", "-", "\n">>}

\* the forms of a fence line that names the path p: the label file or path,
\* the label in other letter cases, white space around p, p with a colon
\* after it
LowerCaseMarkers(p) ==
    {FileMarker(p), PathMarker(p), FILE \o <<":", " ", "\t">> \o p \o <<" ">>}

MarkerForms(p) ==
    LowerCaseMarkers(p)
    \cup {<<"F", "i", "l", "e", ":", " ">> \o p, <<"P", "A", "T", "H", ":", " ">> \o p,
          p \o <<":">>}

\* halves of a body that holds both separators: an original half with => in
\* it, modified halves with a later --- or =>
ArrowHalves == {<<"a", "=", ">", "b">>}

LaterHalves == {<<"c", "\n", "-", "-", "-", "\n", "d">>, <<"c", "=", ">", "d">>}

\* bodies of one line of code with a separator token inside it
InlineBodies == {<<"f", "=", ">", "x">>, <<"a", "-", "-", "-", "b">>}

\* fence lines that are empty or white space, and bodies under them
BlankFenceLines == {<<>>, <<" ">>, <<"\t">>}

BlankFenceBodies == {<<"x">>, <<" ", "\n", "x">>}

\* the specification texts given to the parser alone
SpecTexts ==
    {pre \o Block(FileMarker(p), Halves(o, sep, n)) \o suf :
        pre \in Prefixes, p \in Paths, o \in HalfTexts, sep \in {SEP3, ARROW},
        n \in HalfTexts, suf \in Suffixes}
    \cup {pre \o Block(FileMarker(p), b) \o suf :
            pre \in Prefixes, p \in Paths, b \in PlainBodies, suf \in Suffixes}
    \cup {pre \o Block(l, b) \o suf :
            pre \in Prefixes, l \in PlainFenceLines, b \in PlainBodies, suf \in Suffixes}
    \cup {Block(m, NewText) : m \in UNION {MarkerForms(p) : p \in Paths}}
    \cup {Block(FileMarker(p), Halves(o, SEP3, n)) :
            p \in Paths, o \in ArrowHalves, n \in LaterHalves}
    \cup {Block(FileMarker(p), b) : p \in Paths, b \in InlineBodies}
    \cup {Block(l, b) : l \in BlankFenceLines, b \in BlankFenceBodies}
    \cup ProseTexts

\* the arguments of the calls of create_unified_diff
DiffInputs ==
    { [original |-> <<"a", "\n", "b", "\n">>, modified |-> <<"a", "\n", "c", "\n">>,
       file_path |-> Y, context_lines |-> 3],
      [original |-> OldText, modified |-> OldText, file_path |-> X, context_lines |-> 3] }

\* the texts of the halves of the blocks of the end-to-end runs
E2EHalves == {OldText, NewText, <<>>}

\* the specification texts of the end-to-end runs
E2ETexts ==
    { TwoBlocks(X, OldText, NewText, Y, OldText, NewText),
      TwoBlocks(Y, OldText, NewText, X, <<>>, NewText),
      TwoBlocks(X, NewText, NewText, Y, OldText, NewText),
      <<"n", "o", " ", "f", "i", "x">> }

\* names of files a caller has create_patch_file write: a patch, a second
\* patch, and the name save_patch_metadata gives to the metadata of the first
ListedNames ==
    {APatch, <<"c">> \o PATCH_EXT, <<"a">> \o METADATA_EXT}

IssueBody == <<"b">>

\* what the completion chain does at a call: it times out, it fails, it
\* returns a specification of one change or a text without a block
ChainOutcomes ==
    { [kind |-> "raises", message |-> "timeout"],
      [kind |-> "raises", message |-> "failure"],
      [kind |-> "returns", text |-> Block(FileMarker(X), Halves(OldText, SEP3, NewText))],
      [kind |-> "returns", text |-> TwoBlocks(X, NewText, NewText, Y, OldText, NewText)],
      [kind |-> "returns", text |-> <<"n", "o", " ", "f", "i", "x">>] }

\* what the disk does at the writes of a call: for the patch file and for the
\* metadata file
DiskOutcomes ==
    { [patch |-> "ok", meta |-> "ok"],
      [patch |-> "open_fails", meta |-> "ok"],
      [patch |-> "write_fails", meta |-> "ok"],
      [patch |-> "ok", meta |-> "write_fails"] }

(***************************************************************************)
(* The patch store: calls of a client of PatchAgent and PatchGenerator     *)
(***************************************************************************)

\* the callers of the assembler that may run at the same time
Writers == {1, 2}

\* no caller is inside create_patch_file
NoWriters == [w \in Writers |-> [pc |-> "idle"]]

\* server.py lines 47-48: the default repository
DEFAULT_REPO_OWNER == <<"p", "s", "f">>

DEFAULT_REPO_NAME == <<"r", "e", "q", "u", "e", "s", "t", "s">>

\* None, as the value of a global that holds an object
Unset == [none |-> TRUE]

\* server.py lines 62-66: the globals when the module is loaded
ModuleLoaded ==
    /\ _agent = Unset
    /\ _vectorstore = Unset
    /\ _patch_agent = Unset
    /\ _current_repo_owner = DEFAULT_REPO_OWNER
    /\ _current_repo_name = DEFAULT_REPO_NAME

\* the state after PatchGenerator("o", "r", output_dir), nothing parsed or
\* written yet
Constructed(dirs) ==
    /\ repo_owner = <<"o">>
    /\ repo_name = <<"r">>
    /\ output_dir \in dirs
    /\ now = 0
    /\ fs = EmptyFn
    /\ ctime = EmptyFn
    /\ patch_spec = <<>>
    /\ change_set = <<>>
    /\ call = [op |-> "init"]
    /\ calls = 0
    /\ saved = EmptyFn
    /\ rendered = EmptyFn
    /\ writers = NoWriters
    /\ ModuleLoaded

\* the default output directory
DefaultDir == <<".", "/", "p", "a", "t", "c", "h", "e", "s">>

Init == Constructed({DefaultDir})

\* the clock advances
Tick ==
    /\ now < MaxClock
    /\ now' = now + 1
    /\ UNCHANGED <<output_dir, fs, ctime, patch_spec, change_set, call, calls, saved, rendered, repo_owner, repo_name, writers, server_vars>>

\* the write times after a call that left the files `files`
Touch(files) ==
    [q \in DOMAIN files |->
        IF q \in DOMAIN fs /\ files[q] = fs[q] /\ q # call'.ret THEN ctime[q] ELSE now]

Without(f, k) == [q \in (DOMAIN f) \ {k} |-> f[q]]

With(f, k, v) == [q \in (DOMAIN f) \cup {k} |-> IF q = k THEN v ELSE f[q]]

\* _parse_patch_specification(t)
ParseSpecification ==
    \E t \in E2ETexts :
        /\ patch_spec' = t
        /\ change_set' = parse_patch_specification(t)
        /\ call' = [op |-> "parse_patch_specification"]
        /\ UNCHANGED <<output_dir, now, fs, ctime, calls, saved, rendered, repo_owner, repo_name, writers, server_vars>>

\* create_patch_file(cs, name, Description, Author) for a ChangeSet of
\* ChangeSets and a name of Names
CreatePatchFileOf(ChangeSets, Names) ==
    /\ calls < MaxCalls
    /\ \E cs \in ChangeSets, name \in Names :
        LET r == create_patch_file(fs, output_dir, cs, name, Description, Author, now)
        IN  /\ fs' = r.files
            /\ call' = [op |-> "create_patch_file", changes |-> cs, patch_name |-> name,
                        raised |-> r.raised, ret |-> r.ret, pre |-> fs, at |-> now]
            /\ ctime' = Touch(r.files)
            /\ saved' = IF r.raised = "" /\ name # None THEN Without(saved, name) ELSE saved
    /\ calls' = calls + 1
    /\ UNCHANGED <<output_dir, now, patch_spec, change_set, rendered, repo_owner, repo_name, writers, server_vars>>

\* a caller hands it the ChangeSet the parser returned, as generate_patch
\* does in lines 138-143, or one of file contents, with a name or none
CreatePatchFile == CreatePatchFileOf({change_set, TwoFiles}, {APatch, None})

\* the calls of any caller: any ChangeSet, a name or none
CreateAnyPatchFile == CreatePatchFileOf(DirectChangeSets, PatchNames \cup {None})

\* save_patch_metadata(name, i, IssueTitle, Analysis, [X])
SavePatchMetadata ==
    /\ calls < MaxCalls
    /\ \E name \in PatchNames, i \in IssueIds :
        LET r == save_patch_metadata(fs, output_dir, name, i, IssueTitle, Analysis, <<X>>, now)
        IN  /\ fs' = r.files
            /\ call' = [op |-> "save_patch_metadata", patch_name |-> name, issue_id |-> i,
                        raised |-> "", ret |-> r.ret, pre |-> fs, at |-> now]
            /\ ctime' = Touch(r.files)
            /\ saved' = IF \/ name \in DOMAIN saved
                           \/ /\ call.op = "create_patch_file"
                              /\ call.raised = ""
                              /\ call.patch_name = name
                        THEN With(saved, name, i)
                        ELSE saved
    /\ calls' = calls + 1
    /\ UNCHANGED <<output_dir, now, patch_spec, change_set, rendered, repo_owner, repo_name, writers, server_vars>>

\* list_patches()
ListPatches ==
    /\ call.op # "list_patches"
    /\ IF ListRaises(fs, output_dir)
       THEN call' = [op |-> "list_patches", raised |-> "JSONDecodeError", ret |-> <<>>]
       ELSE \E l \in Listings(fs, ctime, output_dir) :
               call' = [op |-> "list_patches", raised |-> "", ret |-> l]
    /\ UNCHANGED <<output_dir, now, fs, ctime, patch_spec, change_set, calls, saved, rendered, repo_owner, repo_name, writers, server_vars>>

\* the parser and the patch assembler
Next ==
    \/ Tick
    \/ ParseSpecification
    \/ CreatePatchFile

Spec == Init /\ [][Next]_vars

\* the patch assembler and the metadata and history store, in any output
\* directory
InitStore == Constructed(OutputDirs)

NextStore ==
    \/ Tick
    \/ CreateAnyPatchFile
    \/ SavePatchMetadata
    \/ ListPatches

SpecStore == InitStore /\ [][NextStore]_vars

\* the parser alone: it is given a text and returns the ChangeSet
InitParse ==
    /\ repo_owner = <<"o">>
    /\ repo_name = <<"r">>
    /\ output_dir = DefaultDir
    /\ now = 0
    /\ fs = EmptyFn
    /\ ctime = EmptyFn
    /\ patch_spec \in SpecTexts
    /\ change_set = <<>>
    /\ call = [op |-> "input"]
    /\ calls = 0
    /\ saved = EmptyFn
    /\ rendered = EmptyFn
    /\ writers = NoWriters
    /\ ModuleLoaded

\* _parse_patch_specification(patch_spec)
ParseInput ==
    /\ call.op = "input"
    /\ change_set' = parse_patch_specification(patch_spec)
    /\ call' = [op |-> "parse_patch_specification"]
    /\ UNCHANGED <<output_dir, now, fs, ctime, patch_spec, calls, saved, rendered, repo_owner, repo_name, writers, server_vars>>

SpecParse == InitParse /\ [][ParseInput]_vars

\* create_unified_diff(d.original, d.modified, d.file_path, d.context_lines)
RenderDiff ==
    /\ \E d \in DiffInputs :
        LET r == create_unified_diff(d.original, d.modified, d.file_path, d.context_lines)
        IN  /\ call' = [op |-> "create_unified_diff", args |-> d, ret |-> r, pre |-> fs]
            /\ rendered' = IF d \in DOMAIN rendered THEN rendered
                           ELSE With(rendered, d, [ret |-> r, at |-> now, calls |-> calls])
    /\ UNCHANGED <<output_dir, now, fs, ctime, patch_spec, change_set, calls, saved, repo_owner, repo_name, writers, server_vars>>

\* the diff renderer, called while the clock advances and patch files are
\* written
NextDiff ==
    \/ Tick
    \/ CreatePatchFile
    \/ RenderDiff

SpecDiff == Init /\ [][NextDiff]_vars

\* the history store read while patches are written: a caller can give a
\* patch the name of a metadata file, which then holds a patch document and
\* no JSON
CreateListedPatchFile == CreatePatchFileOf({<<Change(X, OldText, NewText)>>}, ListedNames)

NextList ==
    \/ Tick
    \/ CreateListedPatchFile
    \/ SavePatchMetadata
    \/ ListPatches

SpecList == Init /\ [][NextList]_vars

\* apply_patch(path, target_dir, check_only) for the path of a patch name,
\* written or not, while the subprocess behaves in one of its ways
ApplyPatch ==
    /\ \E name \in ListedNames, check_only \in BOOLEAN, outcome \in ApplyOutcomes :
        LET r == apply_patch(fs, PathJoin(output_dir, name), check_only, outcome)
        IN  call' = [op |-> "apply_patch", patch_path |-> PathJoin(output_dir, name),
                     check_only |-> check_only, outcome |-> outcome,
                     raised |-> r.raised, ret |-> r.ret, started |-> r.started,
                     cmd |-> r.cmd, pre |-> fs]
    /\ UNCHANGED <<output_dir, now, fs, ctime, patch_spec, change_set, calls, saved, rendered, repo_owner, repo_name, writers, server_vars>>

\* the patch applier, called on patches as they are written
NextApply ==
    \/ Tick
    \/ CreateListedPatchFile
    \/ ApplyPatch

SpecApply == Init /\ [][NextApply]_vars

\* the paths of the files of issue i
IssuePatchPath(i) == PathJoin(output_dir, IssuePatchName(i))

IssueMetadataPath(i) ==
    PathJoin(output_dir,
             <<"i", "s", "s", "u", "e", "_">> \o Digits(i) \o <<"_">> \o repo_name
             \o <<"_", "f", "i", "x">> \o METADATA_EXT)

\* the write times after a call that left the files `files` and opened the
\* files of `opened` for writing
TouchOpened(files, opened) ==
    [q \in DOMAIN files |->
        IF q \in DOMAIN fs /\ files[q] = fs[q] /\ q \notin opened THEN ctime[q] ELSE now]

\* generate_patch(i, IssueTitle, IssueBody, Analysis) while the completion
\* chain and the disk behave in one of their ways
GeneratePatch ==
    /\ calls < MaxCalls
    /\ \E i \in IssueIds, chain \in ChainOutcomes, disk \in DiskOutcomes :
        \E r \in {generate_patch(fs, output_dir, i, IssueTitle, IssueBody, Analysis,
                                  chain, disk.patch, disk.meta, now)} :
            /\ fs' = r.files
            /\ call' = [op |-> "generate_patch", issue_id |-> i, chain |-> chain,
                        disk |-> disk, raised |-> r.raised, ret |-> r.result,
                        changed_files |-> r.changed_files, pre |-> fs, at |-> now]
            /\ ctime' = TouchOpened(r.files,
                                    IF r.files # fs \/ (r.result.status = "error"
                                                        /\ chain.kind = "returns"
                                                        /\ disk.patch # "open_fails")
                                    THEN {IssuePatchPath(i)} ELSE {})
    /\ calls' = calls + 1
    /\ UNCHANGED <<output_dir, now, patch_spec, change_set, saved, rendered, repo_owner, repo_name, writers, server_vars>>

\* the patch agent: calls of generate_patch for the issues of a repository
NextAgent ==
    \/ Tick
    \/ GeneratePatch

SpecAgent == Init /\ [][NextAgent]_vars

(***************************************************************************)
(* Callers of create_patch_file that run at the same time                  *)
(***************************************************************************)

\* the ChangeSets of the callers: their documents differ in length
RaceChangeSets == {TwoFiles, <<Change(X, OldText, NewText)>>, <<Change(X, OldText, OldText)>>}

\* open(path, "w"): the file is there and empty; what was in it is gone
OpenForWrite(files, path) == [q \in DOMAIN files \cup {path} |-> IF q = path THEN <<>> ELSE files[q]]

\* f.write(content) and the close of a file object opened by OpenForWrite: the
\* content goes to the position of that file object, the start of the file,
\* over what is there; what lies beyond it stays
WriteAtStart(files, path, content) ==
    [files EXCEPT ![path] = content \o SubSeq(@, Len(content) + 1, Len(@))]

\* patch_tool.py lines 91-117: caller w enters create_patch_file(cs, APatch,
\* Description, Author), assembles its document and opens the file
OpenPatchFile(w) ==
    /\ writers[w].pc = "idle"
    /\ \E cs \in RaceChangeSets :
        LET r == create_patch_file(fs, output_dir, cs, APatch, Description, Author, now)
        IN  /\ writers' = [writers EXCEPT ![w] = [pc |-> "opened", path |-> r.ret,
                                                  content |-> r.files[r.ret]]]
            /\ fs' = OpenForWrite(fs, r.ret)
            /\ ctime' = [q \in DOMAIN fs \cup {r.ret} |-> IF q = r.ret THEN now ELSE ctime[q]]
    /\ call' = [op |-> "open", writer |-> w]
    /\ UNCHANGED <<repo_owner, repo_name, output_dir, now, patch_spec, change_set, calls, saved,
                   rendered, server_vars>>

\* lines 118-121: the write of caller w reaches the file, the file is closed
\* and the call returns
WritePatchFile(w) ==
    /\ writers[w].pc = "opened"
    /\ fs' = WriteAtStart(fs, writers[w].path, writers[w].content)
    /\ ctime' = [ctime EXCEPT ![writers[w].path] = now]
    /\ writers' = [writers EXCEPT ![w].pc = "done"]
    /\ call' = [op |-> "write", writer |-> w]
    /\ UNCHANGED <<repo_owner, repo_name, output_dir, now, patch_spec, change_set, calls, saved,
                   rendered, server_vars>>

\* two callers of create_patch_file with the same patch_name and no lock
NextRace ==
    \/ Tick
    \/ \E w \in Writers : OpenPatchFile(w)
    \/ \E w \in Writers : WritePatchFile(w)

SpecRace == Init /\ [][NextRace]_vars

(***************************************************************************)
(* The backend: globals, startup and /api/build-rag                        *)
(***************************************************************************)

\* server.py line 45
PATCHES_DIR == DefaultDir

\* the repositories of the requests: the default one and o/r
Repos == {<<DEFAULT_REPO_OWNER, DEFAULT_REPO_NAME>>, <<<<"o">>, <<"r">>>>}

\* a vector store: the repository whose documents it holds
Chroma(owner, name) == [built_for |-> <<owner, name>>]

\* line 79: the store loaded from CHROMA_DB_PATH at startup, which the server
\* takes to be the default repository's (lines 47-48, 65-66)
LoadedStore == Chroma(DEFAULT_REPO_OWNER, DEFAULT_REPO_NAME)

\* root_agent(vectorstore)
root_agent(vectorstore) == [vectorstore |-> vectorstore]

\* patch_agent.py lines 48-50: PatchAgent(vectorstore, owner, name, patches_dir)
PatchAgent(vectorstore, owner, name, patches_dir) ==
    [vectorstore |-> vectorstore, repo_owner |-> owner, repo_name |-> name,
     patches_dir |-> patches_dir]

\* an HTTPException, and a response of status 200
HTTPException(status_code, detail) == [status_code |-> status_code, detail |-> detail]

\* lines 92-103: the patch agent after _initialize_patch_agent() under the
\* globals given, when the constructor returns
_initialize_patch_agent(vectorstore, owner, name, patch_agent) ==
    IF vectorstore # Unset /\ owner # <<>> /\ name # <<>>
    THEN PatchAgent(vectorstore, owner, name, PATCHES_DIR)
    ELSE patch_agent

\* the patch agent becomes pa; its PatchGenerator is the one of lines 68-70
SetPatchAgent(pa) ==
    /\ _patch_agent' = pa
    /\ repo_owner' = IF pa = Unset THEN repo_owner ELSE pa.repo_owner
    /\ repo_name' = IF pa = Unset THEN repo_name ELSE pa.repo_name
    /\ output_dir' = IF pa = Unset THEN output_dir ELSE pa.patches_dir

\* what the services of startup do: the store cannot be loaded, root_agent
\* raises, PatchAgent raises, or all return
StartupOutcomes == {"store_fails", "agent_fails", "patch_agent_fails", "ok"}

\* lines 69-89 and 190-196: startup_event()
Startup ==
    /\ _vectorstore = Unset
    /\ \E outcome \in StartupOutcomes :
        /\ _vectorstore' = IF outcome = "store_fails" THEN Unset ELSE LoadedStore
        /\ _agent' = IF outcome \in {"store_fails", "agent_fails"}
                     THEN _agent ELSE root_agent(LoadedStore)
        /\ SetPatchAgent(IF outcome = "ok"
                         THEN _initialize_patch_agent(LoadedStore, _current_repo_owner,
                                                      _current_repo_name, _patch_agent)
                         ELSE _patch_agent)
        /\ call' = [op |-> "startup_event", outcome |-> outcome, raised |-> outcome # "ok"]
    /\ UNCHANGED <<now, fs, ctime, patch_spec, change_set, calls, saved, rendered, writers,
                   _current_repo_owner, _current_repo_name>>

\* what the services of /api/build-rag do: the fetch raises or returns no
\* document, create_rag_knowledge_base raises, root_agent raises, PatchAgent
\* raises, or all return
BuildOutcomes ==
    {"fetch_fails", "no_documents", "rag_fails", "agent_fails", "patch_agent_fails", "ok"}

RAGBuildFailed == <<"R", "A", "G", " ", "b", "u", "i", "l", "d", " ", "f", "a", "i", "l", "e", "d", ":", " ">>

NoDocuments == <<"N", "o", " ", "d", "o", "c", "u", "m", "e", "n", "t", "s", " ", "r", "e", "t", "r", "i", "e", "v", "e", "d", " ", "f", "r", "o", "m", " ", "r", "e", "p", "o", "s", "i", "t", "o", "r", "y">>

\* lines 356-427: build_rag_for_repo(request)
BuildRag ==
    /\ calls < MaxCalls
    /\ \E request \in Repos, outcome \in BuildOutcomes :
        LET stored == outcome \in {"agent_fails", "patch_agent_fails", "ok"}
            vectorstore == Chroma(request[1], request[2])
        IN  /\ _vectorstore' = IF stored THEN vectorstore ELSE _vectorstore
            /\ _current_repo_owner' = IF stored THEN request[1] ELSE _current_repo_owner
            /\ _current_repo_name' = IF stored THEN request[2] ELSE _current_repo_name
            /\ _agent' = IF outcome \in {"patch_agent_fails", "ok"}
                         THEN root_agent(vectorstore) ELSE _agent
            /\ SetPatchAgent(IF outcome = "ok"
                             THEN _initialize_patch_agent(vectorstore, request[1], request[2],
                                                          _patch_agent)
                             ELSE _patch_agent)
            /\ call' = [op |-> "build_rag_for_repo", owner |-> request[1],
                        repo |-> request[2], outcome |-> outcome,
                        response |-> IF outcome = "ok" THEN HTTPException(200, <<>>)
                                     ELSE IF outcome = "no_documents"
                                     THEN HTTPException(400, NoDocuments)
                                     ELSE HTTPException(500, RAGBuildFailed)]
    /\ calls' = calls + 1
    /\ UNCHANGED <<now, fs, ctime, patch_spec, change_set, saved, rendered, writers>>

(***************************************************************************)
(* The backend: /api/analyze-issue and /api/query                          *)
(***************************************************************************)

\* backend/model.py lines 13-20: a PatchInfo of the status alone
ResponsePatchInfo(status) ==
    [patch_file |-> None, patch_content |-> None, metadata_file |-> None,
     commit_message |-> None, files_changed |-> <<>>, status |-> status]

\* lines 157-187 and 309-333: the PatchInfo for a result of generate_patch,
\* with the disk as generate_patch left it
PatchInfoOf(result, files) ==
    IF result.status = "success"
    THEN [patch_file |-> result.patch_file,
          patch_content |-> IF result.patch_file \in DOMAIN files
                            THEN files[result.patch_file] ELSE None,
          metadata_file |-> result.metadata_file,
          commit_message |-> result.commit_message,
          files_changed |-> result.files_changed,
          status |-> "success"]
    ELSE IF result.status = "warning"
    THEN [ResponsePatchInfo("warning") EXCEPT !.patch_content = result.specification]
    ELSE ResponsePatchInfo("failed")

\* a helper that would hand every request to the patch agent that is set
_generate_patch_internal_NoRepoCheck(patch_agent, current_owner, current_name, files, owner, repo, issue_id, issue_title, issue_body, analysis, chain, disk, t) ==
    IF patch_agent = Unset
    THEN [patch |-> ResponsePatchInfo("not_generated"), invoked |-> FALSE, files |-> files]
    ELSE Bind(generate_patch(files, patch_agent.patches_dir, issue_id, issue_title, issue_body,
                             analysis, chain, disk.patch, disk.meta, t), LAMBDA r :
            [patch |-> PatchInfoOf(r.result, r.files), invoked |-> TRUE, files |-> r.files])

\* lines 106-187: _generate_patch_internal under the globals given: the
\* PatchInfo, whether generate_patch was invoked, the files it leaves
_generate_patch_internal(patch_agent, current_owner, current_name, files, owner, repo, issue_id, issue_title, issue_body, analysis, chain, disk, t) ==
    IF patch_agent = Unset
    THEN [patch |-> ResponsePatchInfo("not_generated"), invoked |-> FALSE, files |-> files]
    ELSE IF current_owner # owner \/ current_name # repo
    THEN [patch |-> ResponsePatchInfo("not_generated"), invoked |-> FALSE, files |-> files]
    ELSE Bind(generate_patch(files, patch_agent.patches_dir, issue_id, issue_title, issue_body,
                             analysis, chain, disk.patch, disk.meta, t), LAMBDA r :
            [patch |-> PatchInfoOf(r.result, r.files), invoked |-> TRUE, files |-> r.files])

\* the details of the handlers
AgentNotInitializedLong ==
    <<"A", "g", "e", "n", "t", " ", "n", "o", "t", " ", "i", "n", "i", "t", "i", "a", "l", "i", "z", "e", "d", ".", " ", "P", "l", "e", "a", "s", "e", " ", "c", "h", "e", "c", "k", " ", "O", "l", "l", "a", "m", "a", " ", "a", "n", "d", " ", "d", "a", "t", "a", "b", "a", "s", "e", " ", "c", "o", "n", "n", "e", "c", "t", "i", "o", "n", ".">>

IssueNotFound == <<"I", "s", "s", "u", "e", " ", "n", "o", "t", " ", "f", "o", "u", "n", "d", ":", " ">>

AnalysisFailed == <<"A", "n", "a", "l", "y", "s", "i", "s", " ", "f", "a", "i", "l", "e", "d", ":", " ">>

AgentNotInitialized == <<"A", "g", "e", "n", "t", " ", "n", "o", "t", " ", "i", "n", "i", "t", "i", "a", "l", "i", "z", "e", "d", ".">>

QueryFailed == <<"Q", "u", "e", "r", "y", " ", "f", "a", "i", "l", "e", "d", ":", " ">>

\* the files a handler opened for writing when it invoked generate_patch for
\* issue i: the patch file, once the text of the chain holds a change
OpenedFor(invoked, i, chain, disk) ==
    IF /\ invoked
       /\ chain.kind = "returns"
       /\ disk.patch # "open_fails"
       /\ parse_patch_specification(chain.text) # <<>>
    THEN {IssuePatchPath(i)} ELSE {}

\* a response: the status code, the detail of an HTTPException, the PatchInfo
\* of a response model
Response(status_code, detail, patch) ==
    [status_code |-> status_code, detail |-> detail, patch |-> patch]

\* what the services of /api/analyze-issue do: the issue cannot be fetched,
\* the root agent raises, or both return
AnalyzeOutcomes == {"issue_not_found", "agent_fails", "ok"}

\* lines 205-276: analyze_issue(request) for an issue of title IssueTitle and
\* body IssueBody, the root agent returning Analysis
AnalyzeIssue ==
    /\ calls < MaxCalls
    /\ \E request \in Repos, i \in IssueIds, outcome \in AnalyzeOutcomes,
          chain \in ChainOutcomes, disk \in DiskOutcomes :
        \E r \in {IF _agent = Unset
                 THEN [response |-> Response(503, AgentNotInitializedLong, None),
                       invoked |-> FALSE, files |-> fs]
                 ELSE IF outcome = "issue_not_found"
                 THEN [response |-> Response(404, IssueNotFound, None),
                       invoked |-> FALSE, files |-> fs]
                 ELSE IF outcome = "agent_fails"
                 THEN [response |-> Response(500, AnalysisFailed, None),
                       invoked |-> FALSE, files |-> fs]
                 ELSE Bind(_generate_patch_internal(_patch_agent, _current_repo_owner,
                                                    _current_repo_name, fs, request[1],
                                                    request[2], i, IssueTitle, IssueBody,
                                                    Analysis, chain, disk, now), LAMBDA g :
                        [response |-> Response(200, <<>>, g.patch),
                         invoked |-> g.invoked, files |-> g.files])
          } :
            /\ fs' = r.files
            /\ ctime' = TouchOpened(r.files, OpenedFor(r.invoked, i, chain, disk))
            /\ call' = [op |-> "analyze_issue", owner |-> request[1], repo |-> request[2],
                        issue_id |-> i, response |-> r.response, invoked |-> r.invoked,
                        pre |-> fs]
    /\ calls' = calls + 1
    /\ UNCHANGED <<repo_owner, repo_name, output_dir, now, patch_spec, change_set, saved,
                   rendered, writers, server_vars>>

\* the queries: one that mentions an issue, one that does not
Queries == {<<"f", "i", "x", " ", "#", "1">>, <<"w", "h", "y">>}

\* lines 304-306: re.search(r'#(\d+)', query): whether it matches, and the
\* number of the first match
IssueMention(query) ==
    LET hits == {k \in 1..(Len(query) - 1) : query[k] = "#" /\ IsDigit(query[k + 1])}
    IN  IF hits = {} THEN [found |-> FALSE]
        ELSE [found |-> TRUE, issue_id |-> ReadDigits(query, MinOf(hits) + 1, 0).val]

QueryResultFix == <<"Q", "u", "e", "r", "y", " ", "R", "e", "s", "u", "l", "t", " ", "F", "i", "x">>

\* str(e) of an HTTPException: "<status_code>: <detail>" where the framework
\* defines it, else the empty str of an exception without arguments
HTTPExceptionStrs(e) == {Digits(e.status_code) \o <<":", " ">> \o e.detail, <<>>}

\* what the root agent does at /api/query
QueryOutcomes == {"agent_fails", "ok"}

\* lines 279-341: query_agent(request), the root agent returning Analysis
QueryAgent ==
    /\ calls < MaxCalls
    /\ \E query \in Queries, outcome \in QueryOutcomes, chain \in ChainOutcomes,
          disk \in DiskOutcomes,
          text \in HTTPExceptionStrs(HTTPException(503, AgentNotInitialized)) :
        \E r \in {IF _agent = Unset
                 THEN [response |-> Response(500, QueryFailed \o text, None),
                       invoked |-> FALSE, files |-> fs]
                 ELSE IF outcome = "agent_fails"
                 THEN [response |-> Response(500, QueryFailed, None),
                       invoked |-> FALSE, files |-> fs]
                 ELSE IF /\ _patch_agent # Unset
                         /\ _current_repo_owner # <<>>
                         /\ _current_repo_name # <<>>
                         /\ IssueMention(query).found
                 THEN Bind(generate_patch(fs, _patch_agent.patches_dir,
                                          IssueMention(query).issue_id,
                                          QueryResultFix, Take(query, 500), Analysis, chain,
                                          disk.patch, disk.meta, now), LAMBDA g :
                        [response |->
                            Response(200, <<>>,
                                     IF g.result.status = "success"
                                     THEN PatchInfoOf(g.result, g.files)
                                     ELSE ResponsePatchInfo("not_generated")),
                         invoked |-> TRUE, files |-> g.files])
                 ELSE [response |-> Response(200, <<>>, ResponsePatchInfo("not_generated")),
                       invoked |-> FALSE, files |-> fs]
          } :
            /\ fs' = r.files
            /\ ctime' = TouchOpened(r.files,
                                    IF r.invoked
                                    THEN OpenedFor(TRUE, IssueMention(query).issue_id,
                                                   chain, disk)
                                    ELSE {})
            /\ call' = [op |-> "query_agent", query |-> query, agent |-> _agent,
                        response |-> r.response, invoked |-> r.invoked, pre |-> fs]
    /\ calls' = calls + 1
    /\ UNCHANGED <<repo_owner, repo_name, output_dir, now, patch_spec, change_set, saved,
                   rendered, writers, server_vars>>

\* the backend: the module is loaded, startup runs, requests arrive
NextServer ==
    \/ Startup
    \/ BuildRag
    \/ AnalyzeIssue
    \/ QueryAgent

SpecServer == Init /\ [][NextServer]_vars

(***************************************************************************)
(* Reading a written patch document                                        *)
(***************************************************************************)

\* the header lines of the fragment of path p as a reader of the file sees them
HeaderA(p) == <<"-", "-", "-", " ", "a", "/">> \o p

HeaderB(p) == <<"+", "+", "+", " ", "b", "/">> \o p

\* the lines of the file at path
FileLines(path) == SplitLines(fs[path])

\* the header pair of a fragment for p is among the lines
HasPair(lines, p) ==
    \E i \in 1..(Len(lines) - 1) : lines[i] = HeaderA(p) /\ lines[i + 1] = HeaderB(p)

\* the document at path holds the header pair of a fragment for p
HasFragment(path, p) == Bind(FileLines(path), LAMBDA lines : HasPair(lines, p))

\* no line of the document at path is the "--- a/<p>" line
NoHeaderOf(path, p) ==
    Bind(FileLines(path), LAMBDA lines : \A k \in 1..Len(lines) : lines[k] # HeaderA(p))

\* the paths of the "--- a/<path>" lines of the document followed by their
\* "+++ b/<path>" line, in the order of the document
RECURSIVE FragmentPathsFrom(_, _)
FragmentPathsFrom(lines, i) ==
    IF i >= Len(lines) THEN <<>>
    ELSE (IF /\ StartsWithAt(lines[i], 1, HeaderA(<<>>))
             /\ lines[i + 1] = HeaderB(SubSeq(lines[i], 7, Len(lines[i])))
          THEN <<SubSeq(lines[i], 7, Len(lines[i]))>> ELSE <<>>)
         \o FragmentPathsFrom(lines, i + 1)

FragmentPaths(path) == Bind(FileLines(path), LAMBDA lines : FragmentPathsFrom(lines, 1))

\* the last call was a create_patch_file that wrote its file
Created == call.op = "create_patch_file" /\ call.raised = ""

AllChanged(cs) == \A i \in 1..Len(cs) : cs[i].original # cs[i].modified

(***************************************************************************)
(* Claims                                                                  *)
(***************************************************************************)

\* C1: after create_patch_file on a non-empty ChangeSet whose entries all have
\* original # modified, the written file, read again, holds for every entry
\* the header pair "--- a/<path>", "+++ b/<path>" with <path> the entry's key.
C1_HeadersMatchPaths ==
    (Created /\ call.changes # <<>> /\ AllChanged(call.changes))
        => \A i \in 1..Len(call.changes) : HasFragment(call.ret, call.changes[i].path)

\* a patch of two changed files, one of them of several lines, was written
C1_Witness ==
    /\ Created
    /\ call.changes = TwoFiles
    /\ HasFragment(call.ret, X)
    /\ HasFragment(call.ret, Y)

\* C2: an entry whose original equals its modified text adds no fragment to
\* the written document (no "--- a/<path>" line for its path), though the
\* parser keeps such an entry in the ChangeSet it returns.
C2_NoOpEliminated ==
    /\ Created =>
        \A i \in 1..Len(call.changes) :
            call.changes[i].original = call.changes[i].modified
                => NoHeaderOf(call.ret, call.changes[i].path)
    /\ \A p1 \in Paths, p2 \in Paths, t \in E2EHalves, o2 \in E2EHalves, n2 \in E2EHalves :
        (p1 # p2 /\ patch_spec = TwoBlocks(p1, t, t, p2, o2, n2))
            => /\ Len(change_set) = 2
               /\ change_set[1] = Change(p1, Strip(t), Strip(t))

\* the parser returned a ChangeSet with a no-op entry and a change, and the
\* patch written from it holds the fragment of the change
C2_Witness ==
    /\ Created
    /\ patch_spec = TwoBlocks(X, NewText, NewText, Y, OldText, NewText)
    /\ call.changes = change_set
    /\ change_set[1].original = change_set[1].modified
    /\ HasFragment(call.ret, Y)

\* C3: a text with the one block  file: <p> / <old> / --- / <new>  parses to
\* the one-entry ChangeSet {p: {original: old, modified: new}}, old and new
\* stripped.
C3_SingleBlock ==
    call.op = "parse_patch_specification" =>
        \A pre \in Prefixes, p \in Paths, o \in HalfTexts, n \in HalfTexts, suf \in Suffixes :
            patch_spec = pre \o Block(FileMarker(p), Halves(o, SEP3, n)) \o suf
                => change_set = <<Change(p, Strip(o), Strip(n))>>

\* such a text, with white space around the old half, was parsed
C3_Witness ==
    /\ call.op = "parse_patch_specification"
    /\ patch_spec = Block(FileMarker(X), Halves(<<" ", "o", " ">>, SEP3, <<"o", "\n", "p">>))
    /\ change_set = <<Change(X, OldText, <<"o", "\n", "p">>)>>

\* C4: a block  file: <p>  whose body holds neither --- nor => gives the entry
\* {p: {original: "", modified: the stripped body}}.
C4_NoSeparator ==
    call.op = "parse_patch_specification" =>
        \A pre \in Prefixes, p \in Paths, b \in PlainBodies, suf \in Suffixes :
            patch_spec = pre \o Block(FileMarker(p), b) \o suf
                => change_set = <<Change(p, <<>>, Strip(b))>>

\* such a text, its body with white space around it, was parsed
C4_Witness ==
    /\ call.op = "parse_patch_specification"
    /\ patch_spec = Block(FileMarker(Y), <<" ", "n", "\t">>)
    /\ change_set = <<Change(Y, <<>>, NewText)>>

\* the text after the fence at i, up to the end of its line
FenceLine(t, i) ==
    SubSeq(t, i + 3, IF Find(t, NL, i + 3) = 0 THEN Len(t) ELSE Find(t, NL, i + 3) - 1)

\* a fence line names a path as  file: p,  path: p  or  p:  do: there is a
\* colon in it
HasPathMarker(t) ==
    \E i \in 1..Len(t) : StartsWithAt(t, i, FENCE) /\ Contains(FenceLine(t, i), COLON)

\* C5 (as claimed): a text with no fenced block that carries a path marker
\* parses to the empty ChangeSet.
C5_NoMarkerNoChanges ==
    (call.op = "parse_patch_specification" /\ ~HasPathMarker(patch_spec))
        => change_set = <<>>

\* C6 (as claimed): a text of two blocks with different paths, the first split
\* by --- and the second by =>, parses to a ChangeSet of size 2 and the patch
\* written from it holds the two "--- a/<path>" headers in the order of the
\* blocks.
C6_TwoBlocksTwoHeaders ==
    \A p1 \in Paths, p2 \in Paths, o1 \in E2EHalves, n1 \in E2EHalves,
       o2 \in E2EHalves, n2 \in E2EHalves :
        (p1 # p2 /\ patch_spec = TwoBlocks(p1, o1, n1, p2, o2, n2))
            => /\ Len(change_set) = 2
               /\ (Created /\ call.changes = change_set)
                      => FragmentPaths(call.ret) = <<p1, p2>>

\* C6 (amended): the same, for blocks whose halves differ once stripped.
C6_TwoChangedBlocksTwoHeaders ==
    \A p1 \in Paths, p2 \in Paths, o1 \in E2EHalves, n1 \in E2EHalves,
       o2 \in E2EHalves, n2 \in E2EHalves :
        (/\ p1 # p2
         /\ Strip(o1) # Strip(n1)
         /\ Strip(o2) # Strip(n2)
         /\ patch_spec = TwoBlocks(p1, o1, n1, p2, o2, n2))
            => /\ Len(change_set) = 2
               /\ (Created /\ call.changes = change_set)
                      => FragmentPaths(call.ret) = <<p1, p2>>

\* the patch of a two-block text, the block of d/y first, was written
C6_Witness ==
    /\ Created
    /\ patch_spec = TwoBlocks(Y, OldText, NewText, X, <<>>, NewText)
    /\ call.changes = change_set
    /\ FragmentPaths(call.ret) = <<Y, X>>

\* C7: create_patch_file with an empty ChangeSet raises ValueError and leaves
\* every file of the output directory as it was.
C7_EmptyChangeSetRaises ==
    (call.op = "create_patch_file" /\ call.changes = <<>>)
        => /\ call.raised = "ValueError"
           /\ fs = call.pre

\* it was called with an empty ChangeSet when a patch file was already there
C7_Witness ==
    /\ call.op = "create_patch_file"
    /\ call.changes = <<>>
    /\ call.raised = "ValueError"
    /\ call.pre # EmptyFn

\* C8: a create_patch_file with an explicit name whose file is already there
\* leaves exactly its own document in the file: the header and the fragments
\* of its own ChangeSet.
C8_SecondCallOverwrites ==
    (Created /\ call.patch_name # None /\ call.ret \in DOMAIN call.pre)
        => /\ fs[call.ret] = build_patch_header(Description, Author, call.at)
                                \o PatchFragments(call.changes)
           /\ FragmentPaths(call.ret) =
                 SelectSeq([i \in 1..Len(call.changes) |-> call.changes[i].path],
                           LAMBDA q : \E i \in 1..Len(call.changes) :
                                         /\ call.changes[i].path = q
                                         /\ call.changes[i].original # call.changes[i].modified)

\* the second call, with another ChangeSet, replaced a document of the
\* fragments of x and d/y by one of the fragment of d/y alone
C8_Witness ==
    /\ Created
    /\ call.patch_name \in PatchNames
    /\ call.ret \in DOMAIN call.pre
    /\ Bind(SplitLines(call.pre[call.ret]), LAMBDA lines : FragmentPathsFrom(lines, 1)) = <<X, Y>>
    /\ FragmentPaths(call.ret) = <<Y>>

\* C9 (as claimed): after create_patch_file(N) and then
\* save_patch_metadata(N, i), list_patches() returns an entry named N whose
\* metadata is there with issue_id = i.
C9_RoundTrip ==
    call.op = "list_patches" =>
        \A n \in DOMAIN saved :
            /\ call.raised = ""
            /\ \E k \in 1..Len(call.ret) :
                /\ call.ret[k].name = n
                /\ "metadata" \in DOMAIN call.ret[k]
                /\ call.ret[k].metadata.issue_id = saved[n]

Generated == call.op = "generate_patch"

\* C11: whatever the completion chain and the disk do, generate_patch lets no
\* exception through and returns a result of status success with the paths of
\* the patch file and the metadata file, warning, or error with a message.
C11_ClosedOutcomes ==
    Generated =>
        /\ call.raised = ""
        /\ call.ret.status \in {"success", "warning", "error"}
        /\ call.ret.status = "success" => {"patch_file", "metadata_file"} \subseteq DOMAIN call.ret
        /\ call.ret.status = "error" => "message" \in DOMAIN call.ret

\* the write of the patch file failed after open had emptied the file, and
\* the call returned an error
C11_Witness ==
    /\ Generated
    /\ call.chain.kind = "returns"
    /\ call.disk.patch = "write_fails"
    /\ call.ret.status = "error"
    /\ fs[IssuePatchPath(call.issue_id)] = <<>>

\* C12: when the parser finds no change in the text the completion chain
\* returned, generate_patch returns status warning with that text as the
\* specification, and the files are as they were.
C12_NoChangesWarning ==
    (Generated /\ call.chain.kind = "returns"
               /\ parse_patch_specification(call.chain.text) = <<>>)
        => /\ call.ret.status = "warning"
           /\ call.ret.specification = call.chain.text
           /\ fs = call.pre

\* a text without a block was returned for an issue whose patch file an
\* earlier call had written
C12_Witness ==
    /\ Generated
    /\ call.chain.kind = "returns"
    /\ call.ret.status = "warning"
    /\ IssuePatchPath(call.issue_id) \in DOMAIN call.pre

\* C13 (as claimed): when the chain returned a text with changes and the disk
\* took every write, the call returns status success with both paths and the
\* metadata file of the issue is there with its issue_id.
C13_PatchWithMetadata ==
    (Generated /\ call.chain.kind = "returns"
               /\ parse_patch_specification(call.chain.text) # <<>>
               /\ call.disk = [patch |-> "ok", meta |-> "ok"])
        => /\ call.ret.status = "success"
           /\ call.ret.patch_file = IssuePatchPath(call.issue_id)
           /\ call.ret.metadata_file = IssueMetadataPath(call.issue_id)
           /\ IssueMetadataPath(call.issue_id) \in DOMAIN fs
           /\ json_load(fs[IssueMetadataPath(call.issue_id)]).val.issue_id = call.issue_id

\* C18: when the retriever or the completion service raises, generate_patch
\* returns status error with the message of the failure and the issue_id, and
\* the files are as they were.
C18_UpstreamFailure ==
    (Generated /\ call.chain.kind = "raises")
        => /\ call.ret = [status |-> "error", message |-> call.chain.message,
                          issue_id |-> call.issue_id]
           /\ fs = call.pre

\* the completion chain timed out at a call for an issue whose patch file an
\* earlier call had written
C18_Witness ==
    /\ Generated
    /\ call.chain = [kind |-> "raises", message |-> "timeout"]
    /\ call.ret.status = "error"
    /\ IssuePatchPath(call.issue_id) \in DOMAIN call.pre

\* the last call was a list_patches
Listed == call.op = "list_patches"

\* the metadata file of patch file f is there and holds no JSON document
CorruptMetadata(f) ==
    /\ ListedMetadataPath(output_dir, f) \in DOMAIN fs
    /\ ~json_load(fs[ListedMetadataPath(output_dir, f)]).ok

\* the entries of the result named f
EntriesOf(f) == {k \in 1..Len(call.ret) : call.ret[k].name = f}

\* C14 (as claimed): with a metadata file that holds no JSON document,
\* list_patches does not raise and returns an entry for every patch file,
\* without the metadata field for the corrupt one and with it for the others
\* that have a metadata file.
C14_CorruptMetadataSkipped ==
    (Listed /\ \E f \in PatchFilesIn(fs, output_dir) : CorruptMetadata(f))
        => /\ call.raised = ""
           /\ \A f \in PatchFilesIn(fs, output_dir) :
                \E k \in EntriesOf(f) :
                    "metadata" \in DOMAIN call.ret[k]
                        <=> /\ ListedMetadataPath(output_dir, f) \in DOMAIN fs
                            /\ ~CorruptMetadata(f)

\* C15 (as claimed): list_patches returns one entry for each file of the
\* output directory whose name ends with .patch and no other entry, an entry
\* has the metadata field exactly when its metadata file exists, and the
\* entries come by descending creation time.
C15_ListingExact ==
    Listed =>
        /\ call.raised = ""
        /\ Len(call.ret) = Cardinality(PatchFilesIn(fs, output_dir))
        /\ \A f \in PatchFilesIn(fs, output_dir) : Cardinality(EntriesOf(f)) = 1
        /\ \A k \in 1..Len(call.ret) :
            /\ EndsWith(call.ret[k].name, PATCH_EXT)
            /\ PathJoin(output_dir, call.ret[k].name) \in DOMAIN fs
            /\ "metadata" \in DOMAIN call.ret[k]
                  <=> ListedMetadataPath(output_dir, call.ret[k].name) \in DOMAIN fs
        /\ \A j, k \in 1..Len(call.ret) : j < k => call.ret[j].created >= call.ret[k].created

\* the last call was an apply_patch
Applied == call.op = "apply_patch"

\* C16: apply_patch lets no exception through; it returns False and starts no
\* subprocess when the patch file is not there; it returns False when the
\* subprocess times out, exits with a code other than 0 or cannot be started;
\* it returns True only when the subprocess ran and exited with code 0.
C16_ApplyNeverRaises ==
    Applied =>
        /\ call.raised = ""
        /\ call.patch_path \notin DOMAIN call.pre => (call.ret = FALSE /\ ~call.started)
        /\ call.outcome \in {"timeout", "exit_1", "exit_1_stderr_not_utf8", "cannot_start"}
              => call.ret = FALSE
        /\ call.ret = TRUE
              => (call.patch_path \in DOMAIN call.pre /\ call.started /\ call.outcome = "exit_0")

\* git was missing when a patch that is there was to be checked
C16_Witness ==
    /\ Applied
    /\ call.patch_path \in DOMAIN call.pre
    /\ call.outcome = "cannot_start"
    /\ call.check_only
    /\ call.ret = FALSE

\* the lines are the header pair of p and then hunk headers and lines that
\* begin with " ", "+" or "-"
WellFormedFragment(lines, p) ==
    /\ Len(lines) >= 3
    /\ lines[1] = HeaderA(p)
    /\ lines[2] = HeaderB(p)
    /\ \A k \in 3..Len(lines) :
        /\ lines[k] # <<>>
        /\ \/ StartsWithAt(lines[k], 1, <<"@", "@">>)
           \/ lines[k][1] \in {" ", "+", "-"}

\* C17 (as claimed): for original # modified the text create_unified_diff
\* returns is, line by line, the header pair of the path and then only hunk
\* headers and lines beginning with " ", "+" or "-".
C17_WellFormedDiff ==
    (call.op = "create_unified_diff" /\ call.args.original # call.args.modified)
        => Bind(SplitLines(call.ret), LAMBDA lines : WellFormedFragment(lines, call.args.file_path))

\* C19 (as claimed): for a block whose body ends with the separator, white
\* space aside, the entry has modified equal to original.
C19_NothingAfterSeparator ==
    call.op = "parse_patch_specification" =>
        \A pre \in Prefixes, p \in Paths, o \in HalfTexts, sep \in {SEP3, ARROW}, suf \in Suffixes :
            patch_spec = pre \o Block(FileMarker(p), Halves(o, sep, <<>>)) \o suf
                => change_set = <<Change(p, Strip(o), Strip(o))>>

\* C20 (as claimed): for every form of the fence line that names the path p,
\* the key of the entry is p.
C20_MarkerNormalised ==
    call.op = "parse_patch_specification" =>
        \A p \in Paths : \A m \in MarkerForms(p) :
            patch_spec = Block(m, NewText) => change_set = <<Change(p, <<>>, NewText)>>

\* C22: a body that holds both separators is split at its first ---, also
\* when a => comes before it; it is split once: the => before the split stays
\* in the original half, every later --- or => in the modified half.
C22_SeparatorPriority ==
    call.op = "parse_patch_specification" =>
        \A p \in Paths, o \in ArrowHalves, n \in LaterHalves :
            patch_spec = Block(FileMarker(p), Halves(o, SEP3, n))
                => change_set = <<Change(p, o, n)>>

\* a body with => before the first --- and a second --- after it was parsed
C22_Witness ==
    /\ call.op = "parse_patch_specification"
    /\ patch_spec = Block(FileMarker(X), Halves(<<"a", "=", ">", "b">>, SEP3,
                                                <<"c", "\n", "-", "-", "-", "\n", "d">>))
    /\ change_set = <<Change(X, <<"a", "=", ">", "b">>, <<"c", "\n", "-", "-", "-", "\n", "d">>)>>

\* C23 (as claimed): a body in which --- or => occurs only inside a longer
\* line is not split: original is empty and modified is the whole body.
C23_SeparatorLineOnly ==
    call.op = "parse_patch_specification" =>
        \A p \in Paths, b \in InlineBodies :
            patch_spec = Block(FileMarker(p), b) => change_set = <<Change(p, <<>>, b)>>

\* C24 (as claimed): every key of the ChangeSet the parser returns is a
\* non-empty string.
C24_KeysNonEmpty ==
    call.op = "parse_patch_specification" =>
        \A i \in 1..Len(change_set) : change_set[i].path # <<>>

\* C26 (as claimed): every patch document create_patch_file writes holds at
\* least one diff fragment; a ChangeSet of no-op entries alone never leaves a
\* header-only document.
C26_AtLeastOneFragment ==
    Created => FragmentPaths(call.ret) # <<>>

\* C27 (as claimed): save_patch_metadata leaves the patch document of its
\* patch_name as it was, for names with and without the .patch extension: the
\* metadata path differs from the patch path.
C27_MetadataLeavesPatch ==
    call.op = "save_patch_metadata" =>
        LET patch_path == PathJoin(output_dir, call.patch_name)
        IN  patch_path \in DOMAIN call.pre
                => /\ call.ret # patch_path
                   /\ fs[patch_path] = call.pre[patch_path]

\* C25 (as claimed): the files_changed that generate_patch computes after it
\* wrote the patch is the list, in order, of the paths that have a diff
\* fragment in the written patch document; a no-op path is not in it.
C25_FilesChangedAreFragments ==
    (Generated /\ call.changed_files # None)
        => call.changed_files = FragmentPaths(IssuePatchPath(call.issue_id))

\* C28 (as claimed): in every state of the backend, after startup and any
\* calls of /api/build-rag that succeed or fail at any step, a patch agent
\* that is set was constructed for the repository of _current_repo_owner and
\* _current_repo_name.
C28_PatchAgentOfCurrentRepo ==
    _patch_agent # Unset =>
        /\ _patch_agent.repo_owner = _current_repo_owner
        /\ _patch_agent.repo_name = _current_repo_name

C30_QueryUnavailable ==
    (call.op = "query_agent" /\ call.agent = Unset)
        => /\ call.response.status_code = 503
           /\ call.response.detail = AgentNotInitialized

\* C21 (as claimed): once two create_patch_file calls for the same patch_name
\* that ran at the same time have both returned, the file is the complete
\* document of one of them, not a mixture and not a truncated document.
C21_LastWriteWins ==
    (\A w \in Writers : writers[w].pc = "done")
        => \E w \in Writers : fs[writers[w].path] = writers[w].content

====
